---- MODULE Spec2Model ----
(***************************************************************************)
(* Model of codegen/style/generator.cpp.                                   *)
(*                                                                         *)
(* Palette part: the code generator Generator::writeSetPaletteColor        *)
(* (palette index map, the finalize body, the checksum, the name matcher   *)
(* getPaletteIndex) and the generated class style::palette (compute,       *)
(* setData, finalize, save, load, setColor, operator=, destructor).        *)
(*                                                                         *)
(* Style part: Generator::writeSource with the literal emitter             *)
(* valueAssignmentCode, the collector collectUniqueValues, the generated   *)
(* pixel constants with initPxValues, the icon masks, and the generated    *)
(* init_<module>().                                                        *)
(*                                                                         *)
(* Strings are sequences of character codes (97 = 'a', 98 = 'b', 65 = 'A').*)
(* Palette indices are 0-based as in the code.                             *)
(***************************************************************************)
EXTENDS Integers, Sequences, FiniteSets, TLC

VARIABLES
    phase,      \* "parsed" (module read, nothing generated), "generated", "destroyed"
    module,     \* module_: the palette variables in declaration order
    indices,    \* paletteIndices_: name -> palette index
    computes,   \* the generated body of palette::finalize: compute(...) calls in order
    matcher,    \* the generated body of getPaletteIndex, a sequence of statements
    status,     \* palette::_status
    data,       \* palette::_data: per slot, Raw storage or a constructed ColorData
    ready,      \* palette::_ready
    lost,       \* a ColorData was constructed over a live one (never destroyed)
    bad,        \* a ColorData was assigned to or destroyed in raw storage
    last,       \* the last operation called: [op, arg, ret, wasReady]
    isPalette,  \* isPalette_
    env,        \* outside the generator: image files, registered modifiers, the file writer
    source,     \* what writeSource wrote and returned
    px,         \* the generated pixel constants: name -> current value
    inited,     \* the generated flag inited
    scale,      \* cScale(), as the factor of scales: 4, 5, 6 or 8 quarters
    retina      \* cRetina()

styleVars == <<isPalette, env, source, px, inited, scale, retina>>

vars == <<phase, module, indices, computes, matcher, status, data, ready, lost, bad, last,
          isPalette, env, source, px, inited, scale, retina>>

----------------------------------------------------------------------------
(* Bounds of the matcher specification. *)
MaxNameLen == 2
MaxNames == 3
MaxInputLen == 3

NameChars == {97, 98}
InputChars == {65, 97, 98}

Min(a, b) == IF a < b THEN a ELSE b

\* All sequences over S of length 1..n (n >= 1).
RECURSIVE StringsUpTo(_, _)
StringsUpTo(S, n) ==
    IF n = 0 THEN {<<>>}
    ELSE LET shorter == StringsUpTo(S, n - 1)
         IN  shorter \cup {Append(s, c) : s \in shorter, c \in S}

----------------------------------------------------------------------------
(* QString helpers. *)

\* QString::mid(pos, n)
Mid(s, pos, n) == SubSeq(s, pos + 1, Min(Len(s), pos + n))

\* QString::mid(pos)
MidFrom(s, pos) == SubSeq(s, pos + 1, Len(s))

\* QString::chop(1)
Chop(s) == SubSeq(s, 1, Len(s) - 1)

\* QString operator<, the key order of QMap<QString, int>
RECURSIVE StrLess(_, _)
StrLess(s, t) ==
    IF t = <<>> THEN FALSE
    ELSE IF s = <<>> THEN TRUE
    ELSE IF Head(s) # Head(t) THEN Head(s) < Head(t)
    ELSE StrLess(Tail(s), Tail(t))

\* The keys of a QMap walked from end() to begin(): descending key order.
RECURSIVE KeysDescending(_)
KeysDescending(keys) ==
    IF keys = {} THEN <<>>
    ELSE LET top == CHOOSE k \in keys : \A o \in keys \ {k} : StrLess(o, k)
         IN  <<top>> \o KeysDescending(keys \ {top})

----------------------------------------------------------------------------
(* Generator::writeSetPaletteColor, first part: the enumeration of the      *)
(* module's variables that fills paletteIndices_ and writes one compute()   *)
(* call per color.                                                          *)

\* colorFallbackName(value)
colorFallbackName(value) ==
    IF value.copyOf # <<>> THEN value.copyOf[Len(value.copyOf)]
    ELSE value.fallback

\* QMap::value(key, -1)
MapValue(map, key) == IF key \in DOMAIN map THEN map[key] ELSE -1

\* paletteIndices_[name] = index
MapInsert(map, key, val) ==
    [k \in (DOMAIN map) \cup {key} |-> IF k = key THEN val ELSE map[k]]

\* The number of variables an enumeration passes that returns false at a
\* variable whose type is not Color: those before the first such variable.
RECURSIVE LeadingColors(_, _)
LeadingColors(mod, n) ==
    IF n >= Len(mod) \/ mod[n + 1].value.tag # "Color" THEN n
    ELSE LeadingColors(mod, n + 1)

\* The state of the enumeration after the first n variables:
\* [map: paletteIndices_, lines: the compute(...) lines written].
RECURSIVE EnumVariables(_, _)
EnumVariables(mod, n) ==
    IF n = 0 THEN [map |-> <<>>, lines |-> <<>>]
    ELSE LET before == EnumVariables(mod, n - 1)
             variable == mod[n]
             index == n - 1
             map == MapInsert(before.map, variable.name, index)
             fallbackIndex == MapValue(map, colorFallbackName(variable.value))
         IN  [map |-> map,
              lines |-> Append(before.lines,
                               [index |-> index,
                                fallbackIndex |-> fallbackIndex,
                                value |-> variable.value.color])]

\* the accessor name() among those of the first n variables, -1 for none
RECURSIVE AccessorAmong(_, _, _)
AccessorAmong(mod, n, name) ==
    IF n = 0 THEN -1
    ELSE IF mod[n].name = name THEN n - 1
    ELSE AccessorAmong(mod, n - 1, name)

\* Generator::writePaletteDefinition: the index of the accessor name().  The
\* enumeration stops at the first variable that is not a Color (the function
\* then returns false): accessors are written for the variables before it.
AccessorIndex(mod, name) == AccessorAmong(mod, LeadingColors(mod, 0), name)

\* what Generator::writePaletteDefinition returns
writePaletteDefinition(mod) == LeadingColors(mod, 0) = Len(mod)

----------------------------------------------------------------------------
(* Generator::writeSetPaletteColor, second part: the text of               *)
(* getPaletteIndex.  The text is kept as a sequence of statements:         *)
(*   [op |-> "switch", at |-> k]     if (size > k) switch (data[k]) {      *)
(*   [op |-> "case", ch |-> c]       case 'c':                             *)
(*   [op |-> "close"]                };                                    *)
(*   [op |-> "ifsize", size |-> n]   if (size == n)                        *)
(*   [op |-> "return", size |-> n or -1 (no size test), at |-> k,          *)
(*    suffix |-> s, index |-> i]                                           *)
(*        return (size == n && !memcmp(data + k, "s", |s|)) ? i : -1;      *)
(* The generator's state is [out, prefix, already]; tabs only indents.     *)

Switch(k) == [op |-> "switch", at |-> k, ch |-> 0, size |-> 0, suffix |-> <<>>, index |-> 0]
Case(c) == [op |-> "case", at |-> 0, ch |-> c, size |-> 0, suffix |-> <<>>, index |-> 0]
Close == [op |-> "close", at |-> 0, ch |-> 0, size |-> 0, suffix |-> <<>>, index |-> 0]
IfSize(n) == [op |-> "ifsize", at |-> 0, ch |-> 0, size |-> n, suffix |-> <<>>, index |-> 0]
Return(n, k, s, i) == [op |-> "return", at |-> k, ch |-> 0, size |-> n, suffix |-> s, index |-> i]

\* Faulty variant of CloseBranches: closes only while the prefix is longer than the
\* name, without comparing the prefix with the name.
RECURSIVE CloseBranchesByLength(_, _)
CloseBranchesByLength(st, name) ==
    IF Len(st.prefix) > Len(name)
    THEN CloseBranchesByLength([out |-> Append(st.out, Close),
                                prefix |-> Chop(st.prefix),
                                already |-> st.already - 1], name)
    ELSE st

\* lines 750-755: close the branches the name does not share
RECURSIVE CloseBranches(_, _)
CloseBranches(st, name) ==
    IF \/ Len(st.prefix) > Len(name)
       \/ /\ st.prefix # <<>>
          /\ Mid(st.prefix, 0, st.already - 1) # Mid(name, 0, st.already - 1)
    THEN CloseBranches([out |-> Append(st.out, Close),
                        prefix |-> Chop(st.prefix),
                        already |-> st.already - 1], name)
    ELSE st

\* lines 756-759: a new case of the innermost open switch
CaseLabel(st, name) ==
    IF st.prefix # <<>> /\ st.prefix[st.already] # name[st.already]
    THEN [st EXCEPT !.out = Append(st.out, Case(name[st.already])),
                    !.prefix = [st.prefix EXCEPT ![st.already] = name[st.already]]]
    ELSE st

\* lines 760-772: open switches while the next name shares the prefix
RECURSIVE OpenBranches(_, _, _)
OpenBranches(st, name, next) ==
    IF Len(name) > st.already
    THEN IF Mid(name, 0, st.already) # Mid(next, 0, st.already)
         THEN st
         ELSE IF Len(next) <= st.already
         THEN [st EXCEPT !.out = Append(st.out, IfSize(Len(name)))]
         ELSE OpenBranches(
                [out |-> st.out \o <<Switch(st.already), Case(name[st.already + 1])>>,
                 prefix |-> Append(st.prefix, name[st.already + 1]),
                 already |-> st.already + 1], name, next)
    ELSE st

\* lines 773-784: the return statement of the name
EmitReturn(st, name, next, index) ==
    LET sizeTest == \/ Len(name) = st.already
                    \/ Mid(name, 0, st.already) # Mid(next, 0, st.already)
        suffix == IF st.already # Len(name) THEN MidFrom(name, st.already) ELSE <<>>
    IN  [st EXCEPT !.out = Append(st.out,
            Return(IF sizeTest THEN Len(name) ELSE -1, st.already, suffix, index))]

\* lines 744-785: one iteration of the loop over paletteIndices_
MatcherStep(st, name, next, index) ==
    EmitReturn(OpenBranches(CaseLabel(CloseBranches(st, name), name), name, next),
               name, next, index)

\* lines 786-791: close what is still open
RECURSIVE CloseAll(_)
CloseAll(st) ==
    IF st.prefix # <<>>
    THEN CloseAll([out |-> Append(st.out, Close),
                   prefix |-> Chop(st.prefix),
                   already |-> st.already - 1])
    ELSE st

RECURSIVE MatcherLoop(_, _, _, _)
MatcherLoop(st, keys, k, map) ==
    IF k > Len(keys) THEN st
    ELSE LET name == keys[k]
             next == IF k = Len(keys) THEN <<>> ELSE keys[k + 1]
         IN  MatcherLoop(MatcherStep(st, name, next, map[name]), keys, k + 1, map)

\* The statements of getPaletteIndex between its prologue and "return -1;".
writeGetPaletteIndex(map) ==
    CloseAll(MatcherLoop([out |-> <<>>, prefix |-> <<>>, already |-> 0],
                         KeysDescending(DOMAIN map), 1, map)).out

----------------------------------------------------------------------------
(* The generated getPaletteIndex, run as the C++ compiler defines it:      *)
(* a switch jumps to the matching case label of its own body or past its   *)
(* closing brace; control falls from one statement into the next, also     *)
(* across a case label.                                                    *)

\* From position pc inside a switch body (depth nested switches deep):
\* the position after the case label for ch, or after the closing brace.
RECURSIVE FindCase(_, _, _, _)
FindCase(code, pc, depth, ch) ==
    IF pc > Len(code) THEN pc
    ELSE IF code[pc].op = "switch" THEN FindCase(code, pc + 1, depth + 1, ch)
    ELSE IF code[pc].op = "close"
         THEN IF depth = 0 THEN pc + 1 ELSE FindCase(code, pc + 1, depth - 1, ch)
    ELSE IF code[pc].op = "case" /\ depth = 0 /\ code[pc].ch = ch THEN pc + 1
    ELSE FindCase(code, pc + 1, depth, ch)

\* The position after the closing brace of the switch whose body starts at pc.
RECURSIVE SkipSwitch(_, _, _)
SkipSwitch(code, pc, depth) ==
    IF pc > Len(code) THEN pc
    ELSE IF code[pc].op = "switch" THEN SkipSwitch(code, pc + 1, depth + 1)
    ELSE IF code[pc].op = "close"
         THEN IF depth = 0 THEN pc + 1 ELSE SkipSwitch(code, pc + 1, depth - 1)
    ELSE SkipSwitch(code, pc + 1, depth)

\* !memcmp(data + at, suffix, |suffix|)
MemEqual(name, at, suffix) == SubSeq(name, at + 1, at + Len(suffix)) = suffix

ReturnValue(stmt, name) ==
    IF /\ (stmt.size # -1 => Len(name) = stmt.size)
       /\ (stmt.suffix # <<>> => MemEqual(name, stmt.at, stmt.suffix))
    THEN stmt.index
    ELSE -1

RECURSIVE RunMatcher(_, _, _)
RunMatcher(code, pc, name) ==
    IF pc > Len(code) THEN -1
    ELSE LET stmt == code[pc]
         IN  CASE stmt.op = "switch" ->
                    IF Len(name) > stmt.at
                    THEN RunMatcher(code, FindCase(code, pc + 1, 0, name[stmt.at + 1]), name)
                    ELSE RunMatcher(code, SkipSwitch(code, pc + 1, 0), name)
               [] stmt.op = "ifsize" ->
                    IF Len(name) = stmt.size
                    THEN RunMatcher(code, pc + 1, name)
                    ELSE RunMatcher(code, pc + 2, name)
               [] stmt.op = "return" -> ReturnValue(stmt, name)
               [] OTHER -> RunMatcher(code, pc + 1, name)

getPaletteIndex(code, name) == RunMatcher(code, 1, name)

----------------------------------------------------------------------------
(* The generated class style::palette.  A palette is the record            *)
(* [status, data, ready, lost, bad]; slot i of data is Raw while no        *)
(* ColorData object lives in the storage, and the object's channels        *)
(* <<red, green, blue, alpha>> otherwise.                                  *)

Raw == <<>>

\* palette() = default: Status _status[count] = { Status::Initial }; _ready = false
EmptyPalette(count) ==
    [status |-> [i \in 0 .. count - 1 |-> "Initial"],
     data |-> [i \in 0 .. count - 1 |-> Raw],
     ready |-> FALSE,
     lost |-> FALSE,
     bad |-> FALSE]

Count(p) == Cardinality(DOMAIN p.status)

\* new (data(i)) internal::ColorData(v)
Construct(p, i, v) ==
    [p EXCEPT !.data[i] = v, !.lost = p.lost \/ p.data[i] # Raw]

\* *data(i) = v
Assign(p, i, v) ==
    [p EXCEPT !.data[i] = v, !.bad = p.bad \/ p.data[i] = Raw]

\* data(i)->~ColorData()
Destruct(p, i) ==
    [p EXCEPT !.data[i] = Raw, !.bad = p.bad \/ p.data[i] = Raw]

\* Faulty variant of compute: no test of _status[index].
computeAlways(p, index, fallbackIndex, value) ==
    IF fallbackIndex >= 0 /\ p.status[fallbackIndex] # "Initial"
    THEN Construct([p EXCEPT !.status[index] = "Loaded"], index, p.data[fallbackIndex])
    ELSE Construct([p EXCEPT !.status[index] = "Created"], index, value)

\* palette::compute(index, fallbackIndex, value)
compute(p, index, fallbackIndex, value) ==
    IF p.status[index] = "Initial"
    THEN IF fallbackIndex >= 0 /\ p.status[fallbackIndex] # "Initial"
         THEN Construct([p EXCEPT !.status[index] = "Loaded"], index, p.data[fallbackIndex])
         ELSE Construct([p EXCEPT !.status[index] = "Created"], index, value)
    ELSE p

\* the compute(...) lines of palette::finalize from line n on
RECURSIVE ComputeFrom(_, _, _)
ComputeFrom(p, lines, n) ==
    IF n > Len(lines) THEN p
    ELSE ComputeFrom(compute(p, lines[n].index, lines[n].fallbackIndex, lines[n].value),
                     lines, n + 1)

\* Faulty variant of finalize: no return when ready, and every slot that is not
\* Loaded is computed again.
RECURSIVE RecomputeFrom(_, _, _)
RecomputeFrom(p, lines, n) ==
    IF n > Len(lines) THEN p
    ELSE RecomputeFrom(
            IF p.status[lines[n].index] # "Loaded"
            THEN computeAlways(p, lines[n].index, lines[n].fallbackIndex, lines[n].value)
            ELSE p,
            lines, n + 1)

finalizeRecompute(p, lines) == RecomputeFrom([p EXCEPT !.ready = TRUE], lines, 1)

\* palette::finalize()
finalize(p, lines) ==
    IF p.ready THEN p
    ELSE ComputeFrom([p EXCEPT !.ready = TRUE], lines, 1)

\* palette::setData(index, value)
setData(p, index, value) ==
    [(IF p.status[index] = "Initial"
      THEN Construct(p, index, value)
      ELSE Assign(p, index, value)) EXCEPT !.status[index] = "Loaded"]

\* the loop of palette::load from slot i on
RECURSIVE LoadFrom(_, _, _)
LoadFrom(p, cache, i) ==
    IF i = Count(p) THEN p
    ELSE LoadFrom(setData(p, i, <<cache[i * 4 + 1], cache[i * 4 + 2],
                                  cache[i * 4 + 3], cache[i * 4 + 4]>>),
                  cache, i + 1)

\* Faulty variant of load: a cache longer than 4 * count is accepted.
loadAtLeast(p, cache) ==
    IF Len(cache) < Count(p) * 4 THEN [pal |-> p, ret |-> FALSE]
    ELSE [pal |-> LoadFrom(p, cache, 0), ret |-> TRUE]

\* palette::load(cache): [pal, ret]
load(p, cache) ==
    IF Len(cache) # Count(p) * 4 THEN [pal |-> p, ret |-> FALSE]
    ELSE [pal |-> LoadFrom(p, cache, 0), ret |-> TRUE]

\* Faulty variant of the loop of save: blue is written first and red third.
RECURSIVE SaveFromBgra(_, _)
SaveFromBgra(p, i) ==
    IF i = Count(p) THEN <<>>
    ELSE <<p.data[i][3], p.data[i][2], p.data[i][1], p.data[i][4]>> \o SaveFromBgra(p, i + 1)

\* the loop of palette::save from slot i on
RECURSIVE SaveFrom(_, _)
SaveFrom(p, i) ==
    IF i = Count(p) THEN <<>>
    ELSE <<p.data[i][1], p.data[i][2], p.data[i][3], p.data[i][4]>> \o SaveFrom(p, i + 1)

\* palette::save(): [pal, ret]
save(p, lines) ==
    LET q == IF ~p.ready THEN finalize(p, lines) ELSE p
    IN  [pal |-> q, ret |-> SaveFrom(q, 0)]

\* palette::setColor(name, r, g, b, a): [pal, ret]
setColor(p, code, name, rgba) ==
    LET index == getPaletteIndex(code, name)
    IN  IF index >= 0 THEN [pal |-> setData(p, index, rgba), ret |-> TRUE]
        ELSE [pal |-> p, ret |-> FALSE]

\* palette::setColor(name, from): [pal, ret]
setColorFrom(p, code, name, from) ==
    LET nameIndex == getPaletteIndex(code, name)
        fromIndex == getPaletteIndex(code, from)
    IN  IF nameIndex >= 0 /\ fromIndex >= 0 /\ p.status[fromIndex] = "Loaded"
        THEN [pal |-> setData(p, nameIndex, p.data[fromIndex]), ret |-> TRUE]
        ELSE [pal |-> p, ret |-> FALSE]

\* Faulty variant of the loop body of operator=: a slot that is reset does
\* not clear _ready.
AssignSlotKeepReady(p, other, i) ==
    IF other.status[i] = "Loaded"
    THEN IF p.status[i] = "Initial"
         THEN Construct(p, i, other.data[i])
         ELSE Assign(p, i, other.data[i])
    ELSE IF p.status[i] # "Initial"
    THEN [Destruct(p, i) EXCEPT !.status[i] = "Initial"]
    ELSE p

\* one iteration of the loop of palette::operator=
AssignSlot(p, other, i) ==
    IF other.status[i] = "Loaded"
    THEN IF p.status[i] = "Initial"
         THEN Construct(p, i, other.data[i])
         ELSE Assign(p, i, other.data[i])
    ELSE IF p.status[i] # "Initial"
    THEN [Destruct(p, i) EXCEPT !.status[i] = "Initial", !.ready = FALSE]
    ELSE p

\* the loop of palette::operator= from slot i on
RECURSIVE AssignFrom(_, _, _)
AssignFrom(p, other, i) ==
    IF i = Count(p) THEN p
    ELSE AssignFrom(AssignSlot(p, other, i), other, i + 1)

\* Faulty variant of operator=: finalize is not run again.
assignNoRefinalize(p, other, lines) == AssignFrom(p, other, 0)

\* palette::operator=(other)
assignPalette(p, other, lines) ==
    LET wasReady == p.ready
        q == AssignFrom(p, other, 0)
    IN  IF wasReady /\ ~q.ready THEN finalize(q, lines) ELSE q

\* the loop of palette::~palette from slot i on
RECURSIVE DestroyFrom(_, _)
DestroyFrom(p, i) ==
    IF i = Count(p) THEN p
    ELSE DestroyFrom(IF p.status[i] # "Initial" THEN Destruct(p, i) ELSE p, i + 1)

\* palette::~palette()
destroyPalette(p) == DestroyFrom(p, 0)

----------------------------------------------------------------------------
(* The values of a style module (structure::Value).  A value is a record   *)
(* with its type tag, copyOf (the full name of the variable it is an alias *)
(* of, <<>> for none) and the fields of its tag.  A Double is kept in      *)
(* thousandths; a String, Cursor or Align holds its std::string.           *)

InvalidValue == [tag |-> "Invalid", copyOf |-> <<>>]
IntValue(v) == [tag |-> "Int", copyOf |-> <<>>, int |-> v]
DoubleValue(thousandths) == [tag |-> "Double", copyOf |-> <<>>, thousandths |-> thousandths]
PixelsValue(v) == [tag |-> "Pixels", copyOf |-> <<>>, int |-> v]
StringValue(str) == [tag |-> "String", copyOf |-> <<>>, string |-> str]
CursorValue(str) == [tag |-> "Cursor", copyOf |-> <<>>, string |-> str]
AlignValue(str) == [tag |-> "Align", copyOf |-> <<>>, string |-> str]
ColorValue(color) == [tag |-> "Color", copyOf |-> <<>>, color |-> color, fallback |-> <<>>]
PointValue(x, y) == [tag |-> "Point", copyOf |-> <<>>, x |-> x, y |-> y]
SizeValue(w, h) == [tag |-> "Size", copyOf |-> <<>>, width |-> w, height |-> h]
MarginsValue(l, t, r, b) ==
    [tag |-> "Margins", copyOf |-> <<>>, left |-> l, top |-> t, right |-> r, bottom |-> b]
FontValue(size, flags, family) ==
    [tag |-> "Font", copyOf |-> <<>>, size |-> size, flags |-> flags, family |-> family]
\* parts: a sequence of [filename, color, offset]
IconValue(parts) == [tag |-> "Icon", copyOf |-> <<>>, parts |-> parts]
\* fields: a sequence of [name, value]; typeName: the name of the struct type
StructValue(typeName, fields) ==
    [tag |-> "Struct", copyOf |-> <<>>, typeName |-> typeName, hasFields |-> TRUE,
     fields |-> fields]
\* a Struct value whose Fields() is null
NullStructValue(typeName) ==
    [tag |-> "Struct", copyOf |-> <<>>, typeName |-> typeName, hasFields |-> FALSE,
     fields |-> <<>>]
\* value.type(): the tag, and for a Struct the name of the type
TypeOf(value) ==
    [tag |-> value.tag, name |-> IF value.tag = "Struct" THEN value.typeName ELSE <<>>]
\* the value as an alias of the variable name
CopyOf(value, name) == [value EXCEPT !.copyOf = <<name>>]

StyleVariable(name, value) == [name |-> name, value |-> value]

----------------------------------------------------------------------------
(* The literal emitter.  A literal is kept as the sequence of the pieces   *)
(* it was put together from (each a string); the QString is their          *)
(* concatenation, and QString() is <<>>.                                   *)

\* QString::number(n), QString::arg(int): decimal digits
RECURSIVE Digits(_)
Digits(n) == IF n < 10 THEN <<48 + n>> ELSE Digits(n \div 10) \o <<48 + (n % 10)>>

Number(n) == IF n < 0 THEN <<45>> \o Digits(-n) ELSE Digits(n)

\* Faulty variant of pxValueName: no 'm' for a negative value.
pxValueNameUnsigned(value) ==
    <<112, 120>> \o Number(IF value < 0 THEN -value ELSE value)

\* pxValueName(value): "px", 'm' if negative, the magnitude
pxValueName(value) ==
    IF value < 0
    THEN <<112, 120>> \o <<109>> \o Number(-value)
    ELSE <<112, 120>> \o Number(value)

\* The concatenation of the pieces.
RECURSIVE Text(_)
Text(lit) == IF lit = <<>> THEN <<>> ELSE Head(lit) \o Text(Tail(lit))

\* QStringList::join(sep) over literals
RECURSIVE Join(_, _)
Join(lits, sep) ==
    IF lits = <<>> THEN <<>>
    ELSE IF Len(lits) = 1 THEN lits[1]
    ELSE lits[1] \o <<sep>> \o Join(Tail(lits), sep)

StOpen == <<123, 32>>                         \* "{ "
StComma == <<44, 32>>                         \* ", "
StClose == <<32, 125>>                        \* " }"
StScope == <<115, 116, 58, 58>>               \* "st::"
StClone == <<46, 99, 108, 111, 110, 101, 40, 41>>   \* ".clone()"
StEmptyIcon == <<123, 125>>                   \* "{}"
StZero == <<48>>                              \* "0"
StFont == <<102, 111, 110, 116>>              \* "font"
StIndex == <<105, 110, 100, 101, 120>>        \* "index"
\* "MonoIcon{ &iconMask"
StMonoIcon == <<77, 111, 110, 111, 73, 99, 111, 110, 123, 32, 38,
                105, 99, 111, 110, 77, 97, 115, 107>>

StStyle == <<115, 116, 121, 108, 101, 58, 58>>              \* "style::"

\* Generator::typeToString(type): <<>> (QString()) means an error
typeToString(type) ==
    CASE type.tag = "Invalid" -> <<>>
      [] type.tag = "Int" -> <<105, 110, 116>>                       \* "int"
      [] type.tag = "Double" -> <<100, 111, 117, 98, 108, 101>>     \* "double"
      [] type.tag = "Pixels" -> <<105, 110, 116>>                    \* "int"
      [] type.tag = "String" -> <<81, 83, 116, 114, 105, 110, 103>>  \* "QString"
      [] type.tag = "Color" -> StStyle \o <<99, 111, 108, 111, 114>>      \* "style::color"
      [] type.tag = "Point" -> StStyle \o <<112, 111, 105, 110, 116>>      \* "style::point"
      [] type.tag = "Size" -> StStyle \o <<115, 105, 122, 101>>            \* "style::size"
      [] type.tag = "Cursor" -> StStyle \o <<99, 117, 114, 115, 111, 114>>   \* "style::cursor"
      [] type.tag = "Align" -> StStyle \o <<97, 108, 105, 103, 110>>       \* "style::align"
      [] type.tag = "Margins" -> StStyle \o <<109, 97, 114, 103, 105, 110, 115>>   \* "style::margins"
      [] type.tag = "Font" -> StStyle \o <<102, 111, 110, 116>>           \* "style::font"
      [] type.tag = "Icon" -> StStyle \o <<105, 99, 111, 110>>           \* "style::icon"
      [] type.tag = "Struct" -> StStyle \o type.name
      [] OTHER -> <<>>

\* hexChar(ch)
hexChar(ch) == IF ch < 10 THEN 48 + ch ELSE IF ch < 16 THEN 97 + (ch - 10) ELSE 48

hexSecondChar(ch) == hexChar(ch % 16)

hexFirstChar(ch) == hexChar(ch \div 16)

StLineBreak == <<92, 10>>                     \* "\\\n"

\* the loop of stringToEncodedString from character i on; state is
\* [result, writingHexEscapedCharacters, startOnNewLine, lastCutSize]
RECURSIVE EncodeFrom(_, _, _)
EncodeFrom(str, i, state) ==
    IF i > Len(str) THEN state
    ELSE LET ch == str[i]
             cut == IF Len(state.result) - state.lastCutSize > 80
                    THEN [state EXCEPT !.startOnNewLine = TRUE,
                                       !.result = @ \o StLineBreak,
                                       !.lastCutSize = Len(state.result) + Len(StLineBreak)]
                    ELSE state
             next ==
                 IF ch = 10
                 THEN [cut EXCEPT !.writingHexEscapedCharacters = FALSE,
                                  !.result = @ \o <<92, 110>>]
                 ELSE IF ch = 9
                 THEN [cut EXCEPT !.writingHexEscapedCharacters = FALSE,
                                  !.result = @ \o <<92, 116>>]
                 ELSE IF ch = 34 \/ ch = 92
                 THEN [cut EXCEPT !.writingHexEscapedCharacters = FALSE,
                                  !.result = @ \o <<92, ch>>]
                 ELSE IF ch < 32 \/ ch > 127
                 THEN [cut EXCEPT !.writingHexEscapedCharacters = TRUE,
                                  !.result = @ \o <<92, 120, hexFirstChar(ch), hexSecondChar(ch)>>]
                 ELSE [cut EXCEPT !.writingHexEscapedCharacters = FALSE,
                                  !.result = @ \o (IF cut.writingHexEscapedCharacters
                                                   THEN <<34, 34>> ELSE <<>>) \o <<ch>>]
         IN  IF Len(next.result) >= 0 THEN EncodeFrom(str, i + 1, next) ELSE next

\* stringToEncodedString(str)
stringToEncodedString(str) ==
    LET done == EncodeFrom(str, 1, [result |-> <<>>, writingHexEscapedCharacters |-> FALSE,
                                    startOnNewLine |-> FALSE, lastCutSize |-> 0])
    IN  <<34>> \o (IF done.startOnNewLine THEN StLineBreak ELSE <<>>) \o done.result \o <<34>>

\* the digits after the point without the zeros at the end
RECURSIVE StripZeros(_)
StripZeros(digits) ==
    IF digits # <<>> /\ digits[Len(digits)] = 48
    THEN StripZeros(SubSeq(digits, 1, Len(digits) - 1))
    ELSE digits

\* 10^n
RECURSIVE Pow10(_)
Pow10(n) == IF n = 0 THEN 1 ELSE 10 * Pow10(n - 1)

\* 2^k modulo 1000
RECURSIVE Pow2Mod1000(_)
Pow2Mod1000(k) == IF k = 0 THEN 1 ELSE (2 * Pow2Mod1000(k - 1)) % 1000

\* the binary exponent of the double magnitude / 1000, from e upwards;
\* bound is 1000 * 2^e
RECURSIVE BinaryExponent(_, _, _)
BinaryExponent(magnitude, e, bound) ==
    IF e < 21 /\ 2 * bound <= magnitude
    THEN BinaryExponent(magnitude, e + 1, 2 * bound)
    ELSE e

\* the six significant digits of magnitude / 1000 after dropping the last
\* digits of magnitude (rest, out of unit), rounded as the double is: when
\* the decimal lies halfway, the double nearest to it lies above it, below
\* it, or on it; on it the even value is taken.  distance is the remainder of
\* magnitude * 2^k by 1000, the double being the quotient rounded, over 2^k
RoundedTo(kept, rest, unit, distance) ==
    IF 2 * rest > unit THEN kept + 1
    ELSE IF 2 * rest < unit THEN kept
    ELSE IF distance > 500 \/ (distance = 0 /\ kept % 2 = 1) THEN kept + 1
    ELSE kept

\* format 'g' of a value of more than six significant digits, rounded being
\* its first six after rounding, at the decimal exponent: fixed below 10^6,
\* otherwise with an exponent of two digits; zeros at the end dropped
RECURSIVE SixDigitsText(_, _)
SixDigitsText(rounded, exponent) ==
    IF rounded = Pow10(6) THEN SixDigitsText(Pow10(5), exponent + 1)
    ELSE IF exponent < 6
    THEN SubSeq(Digits(rounded), 1, exponent + 1)
         \o (IF rounded % Pow10(5 - exponent) = 0 THEN <<>>
             ELSE <<46>> \o StripZeros(SubSeq(Digits(rounded), exponent + 2, 6)))
    ELSE SubSeq(Digits(rounded), 1, 1)
         \o (IF rounded % Pow10(5) = 0 THEN <<>>
             ELSE <<46>> \o StripZeros(SubSeq(Digits(rounded), 2, 6)))
         \o <<101, 43, 48, 48 + exponent>>

\* the text of magnitude / 1000, magnitude having the given number of digits
MagnitudeText(magnitude, length) ==
    IF length <= 6
    THEN Digits(magnitude \div 1000)
         \o (IF magnitude % 1000 = 0 THEN <<>>
             ELSE <<46>> \o StripZeros(<<48 + ((magnitude % 1000) \div 100),
                                         48 + ((magnitude \div 10) % 10),
                                         48 + (magnitude % 10)>>))
    ELSE SixDigitsText(RoundedTo(magnitude \div Pow10(length - 6),
                                 magnitude % Pow10(length - 6),
                                 Pow10(length - 6),
                                 ((magnitude % 1000)
                                  * Pow2Mod1000(52 - BinaryExponent(magnitude, 0, 1000)))
                                 % 1000),
                       length - 4)

\* QString("%1").arg(double): format 'g' with six significant digits
DoubleText(thousandths) ==
    IF thousandths < 0
    THEN <<45>> \o MagnitudeText(-thousandths, Len(Digits(-thousandths)))
    ELSE MagnitudeText(thousandths, Len(Digits(thousandths)))

StQsl == <<113, 115, 108, 40>>                  \* "qsl("
StParen == <<41>>                             \* ")"
StCursor == <<115, 116, 121, 108, 101, 58, 58, 99, 117, 114, 95>>   \* "style::cur_"
StAlign == <<115, 116, 121, 108, 101, 58, 58, 97, 108, 95>>        \* "style::al_"

\* Generator::valueAssignmentCode(value): <<>> means an error
RECURSIVE valueAssignmentCode(_, _, _)
valueAssignmentCode(value, fontFamilies, iconMasks) ==
    IF value.copyOf # <<>>
    THEN <<StScope, value.copyOf[Len(value.copyOf)]>>
         \o (IF value.tag \in {"Color", "Struct"} THEN <<StClone>> ELSE <<>>)
    ELSE CASE value.tag = "Invalid" -> <<>>
           [] value.tag = "Int" -> <<Number(value.int)>>
           [] value.tag = "Double" -> <<DoubleText(value.thousandths)>>
           [] value.tag = "Pixels" -> <<pxValueName(value.int)>>
           [] value.tag = "String" -> <<StQsl \o stringToEncodedString(value.string) \o StParen>>
           [] value.tag = "Cursor" -> <<StCursor \o value.string>>
           [] value.tag = "Align" -> <<StAlign \o value.string>>
           [] value.tag = "Color" ->
                <<StOpen, Number(value.color[1]), StComma, Number(value.color[2]), StComma,
                  Number(value.color[3]), StComma, Number(value.color[4]), StClose>>
           [] value.tag = "Point" ->
                <<StOpen, pxValueName(value.x), StComma, pxValueName(value.y), StClose>>
           [] value.tag = "Size" ->
                <<StOpen, pxValueName(value.width), StComma, pxValueName(value.height), StClose>>
           [] value.tag = "Margins" ->
                <<StOpen, pxValueName(value.left), StComma, pxValueName(value.top), StComma,
                  pxValueName(value.right), StComma, pxValueName(value.bottom), StClose>>
           [] value.tag = "Font" ->
                LET familyIndex == MapValue(fontFamilies, value.family)
                IN  IF value.family # <<>> /\ familyIndex < 0 THEN <<>>
                    ELSE <<StOpen, pxValueName(value.size), StComma, Number(value.flags), StComma>>
                         \o (IF value.family = <<>> THEN <<StZero>>
                             ELSE <<StFont, Number(familyIndex), StIndex>>)
                         \o <<StClose>>
           [] value.tag = "Icon" ->
                IF value.parts = <<>> THEN <<StEmptyIcon>>
                ELSE IF \E k \in 1 .. Len(value.parts) :
                            MapValue(iconMasks, value.parts[k].filename) < 0
                THEN <<>>
                ELSE <<StOpen>>
                     \o Join([k \in 1 .. Len(value.parts) |->
                                <<StMonoIcon,
                                  Number(MapValue(iconMasks, value.parts[k].filename)),
                                  StComma>>
                                \o valueAssignmentCode(value.parts[k].color, fontFamilies, iconMasks)
                                \o <<StComma>>
                                \o valueAssignmentCode(value.parts[k].offset, fontFamilies, iconMasks)
                                \o <<StClose>>],
                             StComma)
                     \o <<StClose>>
           [] value.tag = "Struct" ->
                IF ~value.hasFields THEN <<>>
                ELSE <<StOpen>>
                     \o Join([k \in 1 .. Len(value.fields) |->
                                valueAssignmentCode(value.fields[k].value, fontFamilies, iconMasks)],
                             StComma)
                     \o <<StClose>>
           [] OTHER -> <<>>

----------------------------------------------------------------------------
(* Generator::collectUniqueValues.  The collection is the record           *)
(* [ok, pxValues, fontFamilies, iconMasks, fontFamilyIndex, iconMaskIndex];*)
(* pxValues is the key set of pxValues_.                                   *)

NoUniqueValues ==
    [ok |-> TRUE, pxValues |-> {}, fontFamilies |-> <<>>, iconMasks |-> <<>>,
     fontFamilyIndex |-> 0, iconMaskIndex |-> 0]

\* pxValues_.insert(v, true) for each v of S
PxInsert(c, S) == [c EXCEPT !.pxValues = @ \cup S]

\* the loop over the parts of an Icon value
RECURSIVE CollectParts(_, _, _)
CollectParts(c, parts, k) ==
    IF k > Len(parts) THEN c
    ELSE LET part == parts[k]
             c1 == PxInsert(c, {part.offset.x, part.offset.y})
             c2 == IF part.filename \in DOMAIN c1.iconMasks THEN c1
                   ELSE [c1 EXCEPT !.iconMasks = MapInsert(@, part.filename, c1.iconMaskIndex + 1),
                                   !.iconMaskIndex = @ + 1]
         IN  CollectParts(c2, parts, k + 1)

\* the lambda collector(variable); the result's ok is what it returns
RECURSIVE collector(_, _)
collector(c, variable) ==
    LET value == variable.value
        \* the loop over the fields of a Struct value, left at the first failure
        CollectFields[k \in 1 .. Len(value.fields) + 1] ==
            IF k = 1 THEN c
            ELSE IF ~CollectFields[k - 1].ok THEN CollectFields[k - 1]
            ELSE collector(CollectFields[k - 1], value.fields[k - 1])
    IN  IF value.copyOf # <<>> THEN c
        ELSE CASE value.tag = "Pixels" -> PxInsert(c, {value.int})
               [] value.tag = "Point" -> PxInsert(c, {value.x, value.y})
               [] value.tag = "Size" -> PxInsert(c, {value.width, value.height})
               [] value.tag = "Margins" ->
                    PxInsert(c, {value.left, value.top, value.right, value.bottom})
               [] value.tag = "Font" ->
                    LET c1 == PxInsert(c, {value.size})
                    IN  IF value.family # <<>> /\ value.family \notin DOMAIN c1.fontFamilies
                        THEN [c1 EXCEPT !.fontFamilies = MapInsert(@, value.family, c1.fontFamilyIndex + 1),
                                        !.fontFamilyIndex = @ + 1]
                        ELSE c1
               [] value.tag = "Icon" -> CollectParts(c, value.parts, 1)
               [] value.tag = "Struct" ->
                    IF ~value.hasFields THEN [c EXCEPT !.ok = FALSE]
                    ELSE CollectFields[Len(value.fields) + 1]
               [] OTHER -> c

\* module_.enumVariables(collector) from variable n on, left at the first failure
RECURSIVE CollectFrom(_, _, _)
CollectFrom(c, mod, n) ==
    IF n > Len(mod) \/ ~c.ok THEN c
    ELSE CollectFrom(collector(c, mod[n]), mod, n + 1)

\* Generator::collectUniqueValues()
collectUniqueValues(mod) == CollectFrom(NoUniqueValues, mod, 1)

----------------------------------------------------------------------------
(* The generated pixel constants and initPxValues.                         *)

\* scales: 100%, 125%, 150% and 200% in quarters
Scales == <<4, 5, 6, 8>>

\* structure::data::pxAdjust(value, scale): value * scale / 4, rounded, sign kept
RECURSIVE pxAdjust(_, _)
pxAdjust(value, factor) ==
    IF value < 0 THEN 0 - pxAdjust(0 - value, factor)
    ELSE (value * factor * 10 + 4) \div 40

\* The keys of a QMap<int, bool> walked from begin() to end(): ascending.
RECURSIVE KeysAscending(_)
KeysAscending(keys) ==
    IF keys = {} THEN <<>>
    ELSE LET low == CHOOSE k \in keys : \A o \in keys : k <= o
         IN  <<low>> \o KeysAscending(keys \ {low})

\* the lines "name = adjusted;" of one case of the switch
RECURSIVE CaseLines(_, _)
CaseLines(keys, factor) ==
    IF keys = <<>> THEN <<>>
    ELSE LET value == Head(keys)
             adjusted == pxAdjust(value, factor)
         IN  (IF adjusted # value
              THEN << [name |-> pxValueName(value), value |-> adjusted] >>
              ELSE <<>>)
             \o CaseLines(Tail(keys), factor)

\* Faulty variant of writePxValuesInit: a line is written for every constant,
\* also when the adjusted value is the value.
writePxValuesInitEveryLine(pxValues) ==
    LET keys == KeysAscending(pxValues)
    IN  [decls |-> [k \in 1 .. Len(keys) |-> [name |-> pxValueName(keys[k]), value |-> keys[k]]],
         cases |-> IF pxValues = {} THEN <<>>
                   ELSE [i \in 1 .. Len(Scales) - 1 |->
                            [factor |-> Scales[i + 1],
                             lines |-> [k \in 1 .. Len(keys) |->
                                          [name |-> pxValueName(keys[k]),
                                           value |-> pxAdjust(keys[k], Scales[i + 1])]]]]]

\* Generator::writePxValuesInit(): the declarations "int name = value;" and
\* the cases of the switch in initPxValues
writePxValuesInit(pxValues) ==
    LET keys == KeysAscending(pxValues)
    IN  [decls |-> [k \in 1 .. Len(keys) |-> [name |-> pxValueName(keys[k]), value |-> keys[k]]],
         cases |-> IF pxValues = {} THEN <<>>
                   ELSE [i \in 1 .. Len(Scales) - 1 |->
                            [factor |-> Scales[i + 1],
                             lines |-> CaseLines(keys, Scales[i + 1])]]]

\* the constants as declared: name -> value
RECURSIVE Declared(_)
Declared(decls) ==
    IF decls = <<>> THEN <<>>
    ELSE MapInsert(Declared(SubSeq(decls, 1, Len(decls) - 1)),
                   decls[Len(decls)].name, decls[Len(decls)].value)

\* the assignments of one case, in order
RECURSIVE RunLines(_, _)
RunLines(consts, lines) ==
    IF lines = <<>> THEN consts
    ELSE RunLines(MapInsert(consts, Head(lines).name, Head(lines).value), Tail(lines))

\* the generated initPxValues()
initPxValues(consts, cases, factor, isRetina) ==
    IF isRetina THEN consts
    ELSE IF \E i \in 1 .. Len(cases) : cases[i].factor = factor
    THEN RunLines(consts, cases[CHOOSE i \in 1 .. Len(cases) : cases[i].factor = factor].lines)
    ELSE consts

----------------------------------------------------------------------------
(* The icon masks.  An image is [null, width, height, format]; the data of *)
(* a mask is [empty, kind, width, height]: empty, the size record of a     *)
(* "size://w,h" path, or the composed PNG with the size of its canvas.     *)

NullImage == [null |-> TRUE, width |-> 0, height |-> 0, format |-> "Invalid"]
Image(w, h, format) == [null |-> FALSE, width |-> w, height |-> h, format |-> format]

EmptyData == [empty |-> TRUE, kind |-> "none", width |-> 0, height |-> 0]

\* QString::split(sep)
RECURSIVE Split(_, _)
Split(s, sep) ==
    IF \A k \in 1 .. Len(s) : s[k] # sep THEN <<s>>
    ELSE LET k == CHOOSE i \in 1 .. Len(s) : s[i] = sep /\ \A j \in 1 .. i - 1 : s[j] # sep
         IN  <<SubSeq(s, 1, k - 1)>> \o Split(SubSeq(s, k + 1, Len(s)), sep)

\* QChar::isSpace() on a Latin-1 character
IsSpace(ch) == ch \in {9, 10, 11, 12, 13, 32, 133, 160}

\* the string without the white space at its ends
RECURSIVE Trimmed(_)
Trimmed(s) ==
    IF s # <<>> /\ IsSpace(s[1]) THEN Trimmed(Tail(s))
    ELSE IF s # <<>> /\ IsSpace(s[Len(s)]) THEN Trimmed(SubSeq(s, 1, Len(s) - 1))
    ELSE s

\* the digits without the zeros in front
RECURSIVE SkipZeros(_)
SkipZeros(digits) ==
    IF digits # <<>> /\ digits[1] = 48 THEN SkipZeros(Tail(digits)) ELSE digits

\* the number of at most nine digits
RECURSIVE ToNat(_)
ToNat(digits) ==
    IF digits = <<>> THEN 0
    ELSE ToNat(SubSeq(digits, 1, Len(digits) - 1)) * 10 + (digits[Len(digits)] - 48)

\* the number of ten digits high * 10 + low, 0 when it is not an int
TenDigits(negative, high, low) ==
    IF high > 214748364 THEN 0
    ELSE IF high = 214748364 /\ low > (IF negative THEN 8 ELSE 7) THEN 0
    ELSE IF negative THEN (-(high * 10)) - low
    ELSE (high * 10) + low

\* the number of the digits that has no zero in front
SignificantToInt(negative, significant) ==
    IF Len(significant) > 10 THEN 0
    ELSE IF Len(significant) = 10
    THEN TenDigits(negative, ToNat(SubSeq(significant, 1, 9)), significant[10] - 48)
    ELSE IF negative THEN -ToNat(significant)
    ELSE ToNat(significant)

\* the number of the characters after the sign
DigitsToInt(negative, digits) ==
    IF digits = <<>> \/ \E k \in 1 .. Len(digits) : digits[k] \notin 48 .. 57 THEN 0
    ELSE SignificantToInt(negative, SkipZeros(digits))

\* the number of a string without white space at its ends
TrimmedToInt(t) ==
    DigitsToInt(t # <<>> /\ t[1] = 45, IF t # <<>> /\ t[1] \in {43, 45} THEN Tail(t) ELSE t)

\* QString::toInt(): white space at the ends, a sign, decimal digits; 0
\* when the string is not such a number or the number is not an int
ToInt(s) == TrimmedToInt(Trimmed(s))

StSizeScheme == <<115, 105, 122, 101, 58, 47, 47>>   \* "size://"

\* QString::startsWith(prefix)
StartsWith(s, prefix) == Len(s) >= Len(prefix) /\ SubSeq(s, 1, Len(prefix)) = prefix

\* QImage(path): the file of the environment, null when there is none
LoadImage(images, path) == IF path \in DOMAIN images THEN images[path] ELSE NullImage

Ext100 == <<46, 112, 110, 103>>              \* ".png"
Ext200 == <<64, 50, 120, 46, 112, 110, 103>>  \* "@2x.png"

\* iconMaskValueSize(width, height)
iconMaskValueSize(width, height) ==
    [empty |-> FALSE, kind |-> "size", width |-> width, height |-> height]

\* Faulty variant of iconMaskValuePng: the size test fails only when both the
\* width and the height are off.
iconMaskValuePngBothOff(filepath, environment) ==
    LET pathAndModifiers == Split(filepath, 45)
        path == pathAndModifiers[1]
        modifiers == Tail(pathAndModifiers)
        png100x == LoadImage(environment.images, path \o Ext100)
        png200x == LoadImage(environment.images, path \o Ext200)
    IN  IF png100x.null THEN EmptyData
        ELSE IF png200x.null THEN EmptyData
        ELSE IF png100x.format # png200x.format THEN EmptyData
        ELSE IF png100x.width * 2 # png200x.width /\ png100x.height * 2 # png200x.height
        THEN EmptyData
        ELSE IF \E k \in 1 .. Len(modifiers) : modifiers[k] \notin environment.modifiers
        THEN EmptyData
        ELSE [empty |-> FALSE, kind |-> "png",
              width |-> png200x.width + png100x.width,
              height |-> png200x.height + pxAdjust(png100x.height, 6)]

\* iconMaskValuePng(filepath)
iconMaskValuePng(filepath, environment) ==
    LET pathAndModifiers == Split(filepath, 45)
        path == pathAndModifiers[1]
        modifiers == Tail(pathAndModifiers)
        png100x == LoadImage(environment.images, path \o Ext100)
        png200x == LoadImage(environment.images, path \o Ext200)
    IN  IF png100x.null THEN EmptyData
        ELSE IF png200x.null THEN EmptyData
        ELSE IF png100x.format # png200x.format THEN EmptyData
        ELSE IF png100x.width * 2 # png200x.width \/ png100x.height * 2 # png200x.height
        THEN EmptyData
        ELSE IF \E k \in 1 .. Len(modifiers) : modifiers[k] \notin environment.modifiers
        THEN EmptyData
        ELSE \* png150x is png200x scaled to pxAdjust(width, 6) x pxAdjust(height, 6)
             [empty |-> FALSE, kind |-> "png",
              width |-> png200x.width + png100x.width,
              height |-> png200x.height + pxAdjust(png100x.height, 6)]

\* the data of a mask of the given width and height, empty ("bad
\* dimensions") when one of them is not positive
SizeOrEmpty(width, height) ==
    IF width <= 0 \/ height <= 0 THEN EmptyData ELSE iconMaskValueSize(width, height)

\* the data of a "size://" mask with the given dimensions
SizeData(dimensions) ==
    IF Len(dimensions) < 2 THEN EmptyData
    ELSE SizeOrEmpty(ToInt(dimensions[1]), ToInt(dimensions[2]))

\* the data of one mask in Generator::writeIconValues
MaskData(filePath, environment) ==
    IF StartsWith(filePath, StSizeScheme)
    THEN SizeData(Split(SubSeq(filePath, 8, Len(filePath)), 44))
    ELSE iconMaskValuePng(filePath, environment)

\* Generator::writeIconValues(): [ok, masks: index -> data].  The files are
\* walked in key order and the function returns at the first whose data is
\* empty: the masks of the files before it are written.
writeIconValues(iconMasks, environment) ==
    LET written == {f \in DOMAIN iconMasks :
                       \A g \in DOMAIN iconMasks :
                           (g = f \/ StrLess(g, f)) => ~MaskData(g, environment).empty}
    IN  [ok |-> written = DOMAIN iconMasks,
         masks |-> [i \in {iconMasks[f] : f \in written} |->
                      MaskData(CHOOSE f \in written : iconMasks[f] = i, environment)]]

----------------------------------------------------------------------------
(* hashCrc32 and the palette checksum.                                     *)

\* A quint32 is kept as its four bytes, the highest first.

Poly == 79764919

\* 1 << n
RECURSIVE Pow2(_)
Pow2(n) == IF n = 0 THEN 1 ELSE 2 * Pow2(n - 1)

\* the quint32 of a number below 2^31
Word(n) == <<n \div 16777216, (n \div 65536) % 256, (n \div 256) % 256, n % 256>>

\* x ^ y on bytes
RECURSIVE XorByte(_, _)
XorByte(x, y) ==
    IF x = 0 THEN y
    ELSE IF y = 0 THEN x
    ELSE (((x % 2) + (y % 2)) % 2) + 2 * XorByte(x \div 2, y \div 2)

\* a ^ b
Xor(a, b) == <<XorByte(a[1], b[1]), XorByte(a[2], b[2]), XorByte(a[3], b[3]), XorByte(a[4], b[4])>>

\* a << 1
ShiftLeft1(a) ==
    <<((a[1] * 2) % 256) + (a[2] \div 128), ((a[2] * 2) % 256) + (a[3] \div 128),
      ((a[3] * 2) % 256) + (a[4] \div 128), (a[4] * 2) % 256>>

\* a >> 8
ShiftRight8(a) == <<0, a[1], a[2], a[3]>>

\* Crc32Table::reflect(val, 8) on a byte, from step i of its loop on
RECURSIVE ReflectFrom(_, _, _)
ReflectFrom(val, i, result) ==
    IF i >= 8 + 1 THEN result
    ELSE ReflectFrom(val \div 2, i + 1, IF val % 2 = 1 THEN result + Pow2(8 - i) ELSE result)

reflect8(val) == ReflectFrom(val, 1, 0)

\* Crc32Table::reflect(val, 32): the bytes in reverse order, each reflected
reflect32(a) == <<reflect8(a[4]), reflect8(a[3]), reflect8(a[2]), reflect8(a[1])>>

\* the inner loop of the constructor of Crc32Table, j steps left
RECURSIVE ShiftPoly(_, _)
ShiftPoly(d, j) ==
    IF j = 0 THEN d
    ELSE ShiftPoly(Xor(ShiftLeft1(d), IF d[1] >= 128 THEN Word(Poly) ELSE Word(0)), j - 1)

\* Crc32Table::_data[lo .. hi]
RECURSIVE Crc32TableRange(_, _)
Crc32TableRange(lo, hi) ==
    IF lo = hi THEN << reflect32(ShiftPoly(<<reflect8(lo), 0, 0, 0>>, 8)) >>
    ELSE LET mid == (lo + hi) \div 2
         IN  Crc32TableRange(lo, mid) \o Crc32TableRange(mid + 1, hi)

\* Crc32Table::_data; entry i is at i + 1
Crc32Table == Crc32TableRange(0, 255)

\* the loop of hashCrc32 from byte i on
RECURSIVE CrcFrom(_, _, _)
CrcFrom(crc, buffer, i) ==
    IF i > Len(buffer) THEN crc
    ELSE LET index == XorByte(crc[4], buffer[i])     \* (crc & 0xFF) ^ buffer[i]
         IN  IF index \in 0 .. 255
             THEN CrcFrom(Xor(ShiftRight8(crc), Crc32Table[index + 1]), buffer, i + 1)
             ELSE crc

\* static_cast<qint32>(word)
ToInt32(a) ==
    LET low == ((a[1] % 128) * 16777216) + (a[2] * 65536) + (a[3] * 256) + a[4]
    IN  IF a[1] >= 128 THEN (low - 2147483647) - 1 ELSE low

\* hashCrc32(data, len)
hashCrc32(buffer) ==
    ToInt32(Xor(CrcFrom(<<255, 255, 255, 255>>, buffer, 1), <<255, 255, 255, 255>>))

\* Faulty variant of checksumString: the literal of the value is left out.
RECURSIVE checksumStringNamesOnly(_, _)
checksumStringNamesOnly(mod, n) ==
    IF n = 0 THEN <<>>
    ELSE checksumStringNamesOnly(mod, n - 1) \o <<38>> \o mod[n].name \o <<58>>

\* checksumString after the first n variables: '&' + name + ':' + literal each
RECURSIVE checksumString(_, _)
checksumString(mod, n) ==
    IF n = 0 THEN <<>>
    ELSE checksumString(mod, n - 1)
         \o <<38>> \o mod[n].name \o <<58>>
         \o Text(valueAssignmentCode(mod[n].value, <<>>, <<>>))

\* Generator::writeSetPaletteColor(): what it returns, paletteIndices_, the
\* compute lines, the checksum and the text of getPaletteIndex
writeSetPaletteColor(mod) ==
    LET n == LeadingColors(mod, 0)
        gen == EnumVariables(mod, n)
        map == IF n < Len(mod) THEN MapInsert(gen.map, mod[n + 1].name, n) ELSE gen.map
    IN  [result |-> n = Len(mod),
         map |-> map,
         lines |-> gen.lines,
         checksum |-> hashCrc32(checksumString(mod, n)),
         code |-> writeGetPaletteIndex(map)]

----------------------------------------------------------------------------
(* Generator::writeSource and what it calls.                               *)

\* Generator::writeVariableDefinitions(), Generator::writeRefsDefinition():
\* enumVariables fails at a variable whose type has no name
AllTypesToString(mod) == \A k \in 1 .. Len(mod) : typeToString(TypeOf(mod[k].value)) # <<>>

\* the assignments "_name = literal;" of writeVariableInit from variable k
\* on: the enumeration returns at the first empty literal
RECURSIVE InitsFrom(_, _, _, _)
InitsFrom(mod, collected, k, done) ==
    IF k > Len(mod) THEN [ok |-> TRUE, inits |-> done]
    ELSE LET value == valueAssignmentCode(mod[k].value, collected.fontFamilies,
                                          collected.iconMasks)
         IN  IF Text(value) = <<>> THEN [ok |-> FALSE, inits |-> done]
             ELSE InitsFrom(mod, collected, k + 1, Append(done, value))

\* nothing collected and nothing written
NoVariableInit ==
    [ok |-> TRUE, failed |-> {}, collected |-> NoUniqueValues,
     pxInit |-> writePxValuesInit({}), masks |-> <<>>, inits |-> <<>>]

\* Generator::writeVariableInit() after the px section: icons is the result
\* of writeIconValues, written that of the enumeration of the assignments
VariableInitWritten(palette, collected, pxInit, icons, written) ==
    IF ~icons.ok /\ (\/ collected.pxValues # {}
                     \/ DOMAIN collected.fontFamilies # {}
                     \/ DOMAIN collected.iconMasks # {})
    THEN [ok |-> FALSE, failed |-> {"writeIconValues"}, collected |-> collected,
          pxInit |-> pxInit, masks |-> icons.masks, inits |-> <<>>]
    ELSE IF ~palette /\ ~written.ok
    THEN [ok |-> FALSE, failed |-> {"valueAssignmentCode"}, collected |-> collected,
          pxInit |-> pxInit, masks |-> icons.masks, inits |-> written.inits]
    ELSE [ok |-> TRUE, failed |-> {}, collected |-> collected, pxInit |-> pxInit,
          masks |-> icons.masks, inits |-> IF palette THEN <<>> ELSE written.inits]

\* Generator::writeVariableInit() after collectUniqueValues
VariableInitCollected(mod, palette, environment, collected) ==
    IF ~collected.ok
    THEN [NoVariableInit EXCEPT !.ok = FALSE, !.failed = {"collectUniqueValues"},
                                !.collected = collected]
    ELSE VariableInitWritten(palette, collected,
                             writePxValuesInit(collected.pxValues),
                             writeIconValues(collected.iconMasks, environment),
                             InitsFrom(mod, collected, 1, <<>>))

\* Generator::writeVariableInit(): [ok, failed, collected, pxInit, masks,
\* inits]: what it returns, the call that failed, the members pxValues_,
\* fontFamilies_ and iconMasks_ after it, and what it wrote to the stream
writeVariableInit(mod, palette, environment) ==
    IF Len(mod) = 0 THEN NoVariableInit
    ELSE VariableInitCollected(mod, palette, environment, collectUniqueValues(mod))

\* Generator::writeSource() left at a call that failed
SourceStopped(paletteWritten, failed, init) ==
    [ret |-> FALSE, finalized |-> FALSE, failed |-> failed,
     paletteWritten |-> paletteWritten,
     collected |-> init.collected, pxInit |-> init.pxInit,
     masks |-> init.masks, inits |-> init.inits]

\* Generator::writeSource() from writeVariableInit on: setPalette holds the
\* name of writeSetPaletteColor when that call failed, init is the result of
\* writeVariableInit
SourceInitialized(mod, palette, environment, setPalette, init) ==
    IF Len(mod) > 0 /\ ~init.ok
    THEN SourceStopped(palette, setPalette \cup init.failed, init)
    ELSE [ret |-> environment.finalizeOk,
          finalized |-> TRUE,
          failed |-> setPalette \cup (IF environment.finalizeOk THEN {} ELSE {"finalize"}),
          paletteWritten |-> Len(mod) > 0 /\ palette,
          collected |-> init.collected, pxInit |-> init.pxInit,
          masks |-> init.masks, inits |-> init.inits]

\* Generator::writeSource(): ret is what it returns, finalized whether
\* source_->finalize() was called, failed the calls that returned failure
writeSource(mod, palette, environment) ==
    IF Len(mod) > 0 /\ ~AllTypesToString(mod)
    THEN SourceStopped(FALSE,
                       IF palette THEN {"writeRefsDefinition"}
                       ELSE {"writeVariableDefinitions"},
                       NoVariableInit)
    ELSE SourceInitialized(mod, palette, environment,
                           IF Len(mod) > 0 /\ palette /\ ~writeSetPaletteColor(mod).result
                           THEN {"writeSetPaletteColor"} ELSE {},
                           writeVariableInit(mod, palette, environment))

----------------------------------------------------------------------------
(* The inputs. *)

CacheSlack == 1

\* a color variable of the module: structure::Variable with a Color value
ColorVariable(name, copyOf, color, fallback) ==
    [name |-> name,
     value |-> [tag |-> "Color", copyOf |-> copyOf, color |-> color, fallback |-> fallback]]

\* Palette modules the palette specification runs.  In the first, "a"
\* has no fallback, "ba" is an alias of "a" (and has its color) and "bb"
\* falls back to "ba"; in the second, "c" names a fallback declared after
\* it, "ab" falls back to "c" and "a" names itself; the third has a
\* variable that is not a Color, and its generation fails.
PaletteModules ==
    { << ColorVariable(<<97>>, <<>>, <<10, 11, 12, 255>>, <<>>),
         ColorVariable(<<98, 97>>, << <<97>> >>, <<10, 11, 12, 255>>, <<>>),
         ColorVariable(<<98, 98>>, <<>>, <<30, 31, 32, 33>>, <<98, 97>>) >>,
      << ColorVariable(<<99>>, <<>>, <<40, 41, 42, 255>>, <<97>>),
         ColorVariable(<<97, 98>>, <<>>, <<50, 51, 52, 255>>, <<99>>),
         ColorVariable(<<97>>, <<>>, <<60, 61, 62, 63>>, <<97>>) >>,
      << ColorVariable(<<97>>, <<>>, <<10, 11, 12, 255>>, <<>>),
         StyleVariable(<<112>>, PixelsValue(2)),
         ColorVariable(<<98>>, <<>>, <<30, 31, 32, 33>>, <<97>>) >> }

\* Declared names of a module, as a set.
DeclaredNames(mod) == {mod[k].name : k \in 1 .. Len(mod)}

\* Modules of the matcher specification: up to MaxNames distinct names of
\* up to MaxNameLen characters, declared in ascending, descending or
\* rotated order, all with the same plain color.
NameSets ==
    {S \in SUBSET (StringsUpTo(NameChars, MaxNameLen) \ {<<>>}) :
        Cardinality(S) \in 1 .. MaxNames}

Reverse(s) == [k \in 1 .. Len(s) |-> s[Len(s) + 1 - k]]

Rotate(s) == IF s = <<>> THEN s ELSE Append(Tail(s), Head(s))

NameOrders(S) ==
    LET desc == KeysDescending(S)
    IN  {desc, Reverse(desc), Rotate(desc)}

MatcherModules ==
    {[k \in 1 .. Len(order) |-> ColorVariable(order[k], <<>>, <<1, 2, 3, 255>>, <<>>)] :
        order \in UNION {NameOrders(S) : S \in NameSets}}

\* Names looked up in the matcher specification.
LookupNames == StringsUpTo(InputChars, MaxInputLen)

\* Names given to setColor: the declared ones and "b", which no module declares.
QueryNames == DeclaredNames(module) \cup {<<98>>}

SetColorValues == {<<1, 2, 3, 4>>}

\* Byte k of the cache pattern.
CacheByte(k) == 100 + k

\* Caches given to load: empty, and the pattern cut at the lengths within
\* CacheSlack of 4 * count.
Caches ==
    {[k \in 1 .. n |-> CacheByte(k)] :
        n \in {0} \cup (Len(module) * 4 - CacheSlack .. Len(module) * 4 + CacheSlack)}

Pal == [status |-> status, data |-> data, ready |-> ready, lost |-> lost, bad |-> bad]

SetPal(q) ==
    /\ status' = q.status
    /\ data' = q.data
    /\ ready' = q.ready
    /\ lost' = q.lost
    /\ bad' = q.bad

\* Another palette object, the right-hand side of an assignment: a fresh
\* palette in which the slots of S were set (setColor with their names)
\* and then, if fin, finalize was called.
RECURSIVE SetSlots(_, _, _)
SetSlots(p, S, rgba) ==
    IF S = {} THEN p
    ELSE LET i == CHOOSE x \in S : TRUE
         IN  SetSlots(setData(p, i, rgba), S \ {i}, rgba)

OtherPalette(S, fin) ==
    LET q == SetSlots(EmptyPalette(Len(module)), S, <<5, 6, 7, 8>>)
    IN  IF fin THEN finalize(q, computes) ELSE q

OtherPalettes ==
    {OtherPalette(S, fin) : S \in SUBSET (0 .. Len(module) - 1), fin \in BOOLEAN}

\* Bound of the style specifications: the variables of a module.
MaxVars == 2

\* the variable at position k is named 'a', 'b', ...
VarName(k) == <<96 + k>>

StI == <<105>>                                \* "i"
StJ == <<106>>                                \* "j"
StJF == <<106, 45, 102>>                      \* "j-f"
StJG == <<106, 45, 103>>                      \* "j-g"
StSize34 == StSizeScheme \o <<51, 44, 52>>    \* "size://3,4"
StSize04 == StSizeScheme \o <<48, 44, 52>>    \* "size://0,4"
StT == <<84>>                                 \* "T", a struct type
StF == <<102>>                                \* "f"

Part(filename, color, offset) == [filename |-> filename, color |-> color, offset |-> offset]

\* The values the style modules are made of.
StyleValues ==
    { PixelsValue(2), PixelsValue(-2), PixelsValue(8),
      PointValue(1, -2),
      SizeValue(8, 1),
      MarginsValue(1, 2, 8, 0),
      FontValue(8, 0, StF),
      ColorValue(<<1, 2, 3, 255>>),
      InvalidValue,
      CopyOf(PixelsValue(5), <<120>>),
      IconValue(<< Part(StI, ColorValue(<<1, 2, 3, 255>>), PointValue(0, 2)) >>),
      IconValue(<< Part(StJF, CopyOf(ColorValue(<<1, 2, 3, 255>>), <<120>>), PointValue(1, -2)),
                   Part(StSize34, ColorValue(<<1, 2, 3, 4>>), PointValue(0, 0)) >>),
      IconValue(<< Part(StJG, ColorValue(<<1, 2, 3, 255>>), PointValue(0, 0)) >>),
      IconValue(<< Part(StSize04, ColorValue(<<1, 2, 3, 255>>), PointValue(0, 0)) >>),
      IconValue(<< Part(StJ, InvalidValue, PointValue(3, 0)) >>),
      StructValue(StT, << StyleVariable(<<112>>, PixelsValue(2)),
                          StyleVariable(<<113>>, InvalidValue) >>),
      StructValue(StT, << StyleVariable(<<112>>, FontValue(-8, 1, <<>>)),
                          StyleVariable(<<113>>,
                             IconValue(<< Part(StJ, ColorValue(<<1, 2, 3, 255>>),
                                               PointValue(12, -12)) >>)),
                          StyleVariable(<<114>>, CursorValue(<<112>>)),
                          StyleVariable(<<115>>, AlignValue(<<116>>)),
                          StyleVariable(<<116>>, DoubleValue(1234567)) >>),
      NullStructValue(StT),
      DoubleValue(1500),
      StringValue(<<104, 34, 233, 105>>) }

\* Modules of up to MaxVars variables.  The last two values are 1.5 and the
\* string h"\xe9i; the second struct holds the cursor p, the alignment t and 1234.567.
StyleModules ==
    {[k \in 1 .. Len(vs) |-> StyleVariable(VarName(k), vs[k])] :
        vs \in StringsUpTo(StyleValues, MaxVars)}

\* The files "i.png" (10x10) and "j.png" (5x5, with a 10x10 "j@2x.png");
\* "i@2x.png" is double, or not as given.
ImageFiles(double) ==
    LET named == [f \in {StI \o Ext100, StJ \o Ext100, StJ \o Ext200} |->
                    IF f = StI \o Ext100 THEN Image(10, 10, "ARGB32")
                    ELSE IF f = StJ \o Ext100 THEN Image(5, 5, "ARGB32")
                    ELSE Image(10, 10, "ARGB32")]
    IN  IF double.null THEN named
        ELSE [f \in DOMAIN named \cup {StI \o Ext200} |->
                IF f = StI \o Ext200 THEN double ELSE named[f]]

Environment(double, finalizeOk) ==
    [images |-> ImageFiles(double), modifiers |-> {StF}, finalizeOk |-> finalizeOk]

GoodEnv == Environment(Image(20, 20, "ARGB32"), TRUE)

Envs ==
    {Environment(Image(w, h, "ARGB32"), TRUE) : w \in {19, 20}, h \in {20, 21}}
    \cup {Environment(Image(20, 20, "RGB32"), TRUE),
          Environment(NullImage, TRUE),
          Environment(Image(20, 20, "ARGB32"), FALSE)}

\* Modules of the scale specification: pixel quantities only.
PxModules ==
    {[k \in 1 .. Len(vs) |-> StyleVariable(VarName(k), vs[k])] :
        vs \in StringsUpTo({PixelsValue(0), PixelsValue(1), PixelsValue(2), PixelsValue(-2),
                            PixelsValue(8), PointValue(1, -8)}, MaxVars) \ {<<>>}}

\* Palette modules of the checksum specification: up to MaxVars colors,
\* each a literal or, after the first, an alias of the first.
ChecksumColors ==
    {<<1, 2, 3, 255>>, <<1, 2, 3, 199>>, <<1, 2, 3, 4>>, <<1, 2, 3, 5>>,
     <<0, 0, 0, 0>>, <<14, 0, 89, 255>>, <<20, 148, 166, 255>>}

ChecksumValues ==
    {ColorValue(c) : c \in ChecksumColors}
    \cup {CopyOf(ColorValue(c), VarName(1)) : c \in {<<1, 2, 3, 255>>}}

ChecksumModules ==
    {[k \in 1 .. Len(vs) |-> StyleVariable(VarName(k), vs[k])] :
        vs \in {ws \in StringsUpTo(ChecksumValues, MaxVars) \ {<<>>} : ws[1].copyOf = <<>>}}

\* before writeSource
NoSource ==
    [ret |-> FALSE, finalized |-> FALSE, failed |-> {}, paletteWritten |-> FALSE,
     collected |-> NoUniqueValues, pxInit |-> writePxValuesInit({}),
     masks |-> <<>>, inits |-> <<>>]

\* arg and ret are None for an operation that takes or returns nothing.
None == <<>>

\* wasReady is _ready when the operation was called.
Call(op, arg, ret) == [op |-> op, arg |-> arg, ret |-> ret, wasReady |-> ready]

----------------------------------------------------------------------------
(* The state machine. *)

InitPalette ==
    /\ status = EmptyPalette(Len(module)).status
    /\ data = EmptyPalette(Len(module)).data
    /\ ready = FALSE
    /\ lost = FALSE
    /\ bad = FALSE
    /\ last = Call("none", None, None)

\* Nothing written, the process not started, the scale at 100%.
InitStyle ==
    /\ source = NoSource
    /\ px = <<>>
    /\ inited = FALSE
    /\ scale = Scales[1]
    /\ retina = FALSE

InitParsed(modules) ==
    /\ phase = "parsed"
    /\ module \in modules
    /\ indices = <<>>
    /\ computes = <<>>
    /\ matcher = <<>>
    /\ InitPalette
    /\ isPalette = TRUE
    /\ env = GoodEnv
    /\ InitStyle

Init == InitParsed(PaletteModules)

MatcherInit == InitParsed(MatcherModules)

\* Generator::writeSetPaletteColor; the palette exists when it returned true
Generate ==
    /\ phase = "parsed"
    /\ LET written == writeSetPaletteColor(module)
       IN  /\ indices' = written.map
           /\ computes' = written.lines
           /\ matcher' = written.code
           /\ phase' = IF written.result THEN "generated" ELSE "failed"
           /\ last' = Call("generate", None, written.result)
    /\ UNCHANGED <<module, status, data, ready, lost, bad>>
    /\ UNCHANGED styleVars

\* getPaletteIndex(name).  The function keeps no state: one call after
\* the generation covers every call.
Lookup(name) ==
    /\ phase = "generated"
    /\ last.op = "generate"
    /\ last' = Call("getPaletteIndex", name, getPaletteIndex(matcher, name))
    /\ UNCHANGED <<phase, module, indices, computes, matcher, status, data, ready, lost, bad>>
    /\ UNCHANGED styleVars

\* palette::finalize()
Finalize ==
    /\ phase = "generated"
    /\ SetPal(finalize(Pal, computes))
    /\ last' = Call("finalize", None, None)
    /\ UNCHANGED <<phase, module, indices, computes, matcher>>
    /\ UNCHANGED styleVars

\* palette::save()
Save ==
    /\ phase = "generated"
    /\ LET r == save(Pal, computes)
       IN  /\ SetPal(r.pal)
           /\ last' = Call("save", None, r.ret)
    /\ UNCHANGED <<phase, module, indices, computes, matcher>>
    /\ UNCHANGED styleVars

\* palette::load(cache)
Load(cache) ==
    /\ phase = "generated"
    /\ LET r == load(Pal, cache)
       IN  /\ SetPal(r.pal)
           /\ last' = Call("load", cache, r.ret)
    /\ UNCHANGED <<phase, module, indices, computes, matcher>>
    /\ UNCHANGED styleVars

\* palette::setColor(name, r, g, b, a)
SetColor(name, rgba) ==
    /\ phase = "generated"
    /\ LET r == setColor(Pal, matcher, name, rgba)
       IN  /\ SetPal(r.pal)
           /\ last' = Call("setColor", <<name, rgba>>, r.ret)
    /\ UNCHANGED <<phase, module, indices, computes, matcher>>
    /\ UNCHANGED styleVars

\* palette::setColor(name, from)
SetColorFrom(name, from) ==
    /\ phase = "generated"
    /\ LET r == setColorFrom(Pal, matcher, name, from)
       IN  /\ SetPal(r.pal)
           /\ last' = Call("setColorFrom", <<name, from>>, r.ret)
    /\ UNCHANGED <<phase, module, indices, computes, matcher>>
    /\ UNCHANGED styleVars

\* palette::operator=(other)
AssignPalette(other) ==
    /\ phase = "generated"
    /\ SetPal(assignPalette(Pal, other, computes))
    /\ last' = Call("assign", None, None)
    /\ UNCHANGED <<phase, module, indices, computes, matcher>>
    /\ UNCHANGED styleVars

\* palette::~palette()
Destroy ==
    /\ phase = "generated"
    /\ SetPal(destroyPalette(Pal))
    /\ phase' = "destroyed"
    /\ last' = Call("destroy", None, None)
    /\ UNCHANGED <<module, indices, computes, matcher>>
    /\ UNCHANGED styleVars

\* the step of writeSource: out is what the function did, written the
\* result of its call of writeSetPaletteColor
Written(out, written) ==
    /\ source' = out
    /\ px' = Declared(out.pxInit.decls)
    /\ last' = Call("writeSource", None, out.ret)
    /\ IF out.paletteWritten
       THEN /\ indices' = written.map
            /\ computes' = written.lines
            /\ matcher' = written.code
       ELSE UNCHANGED <<indices, computes, matcher>>

\* Generator::writeSource(); the constants of the written file start as declared
WriteSource ==
    /\ phase = "parsed"
    /\ Written(writeSource(module, isPalette, env), writeSetPaletteColor(module))
    /\ phase' = "written"
    /\ UNCHANGED <<module, status, data, ready, lost, bad, isPalette, env, inited, scale, retina>>

\* Faulty variant of init_<module>(): without "if (inited) return;", so that
\* every start runs initPxValues on the constants as they are.
initModuleEveryStart(wasInited, consts, out, factor, isRetina) ==
    IF out.collected.pxValues # {}
    THEN initPxValues(consts, out.pxInit.cases, factor, isRetina)
    ELSE consts

\* the generated init_<module>(), on the pixel constants
initModule(wasInited, consts, out, factor, isRetina) ==
    IF wasInited THEN consts
    ELSE IF out.collected.pxValues # {}
    THEN initPxValues(consts, out.pxInit.cases, factor, isRetina)
    ELSE consts

\* Module_<name>::start(): init_<module>() of the written file
Start ==
    /\ phase = "written"
    /\ source.ret
    /\ px' = initModule(inited, px, source, scale, retina)
    /\ inited' = TRUE
    /\ IF isPalette /\ ~inited
       THEN SetPal(finalize(Pal, computes))
       ELSE UNCHANGED <<status, data, ready, lost, bad>>
    /\ last' = Call("init", <<scale, retina>>, None)
    /\ UNCHANGED <<phase, module, indices, computes, matcher, isPalette, env, source, scale, retina>>

\* cScale() and cRetina() change
SetScale(factor, isRetina) ==
    /\ phase = "written"
    /\ source.ret
    /\ <<factor, isRetina>> # <<scale, retina>>
    /\ scale' = factor
    /\ retina' = isRetina
    /\ last' = Call("setScale", <<factor, isRetina>>, None)
    /\ UNCHANGED <<phase, module, indices, computes, matcher, status, data, ready, lost, bad,
                   isPalette, env, source, px, inited>>

\* palette::Checksum()
Checksum ==
    /\ phase = "generated"
    /\ last' = Call("Checksum", None, writeSetPaletteColor(module).checksum)
    /\ UNCHANGED <<phase, module, indices, computes, matcher, status, data, ready, lost, bad>>
    /\ UNCHANGED styleVars

Next ==
    \/ Generate
    \/ Finalize
    \/ Save
    \/ \E cache \in Caches : Load(cache)
    \/ \E name \in QueryNames, rgba \in SetColorValues : SetColor(name, rgba)
    \/ \E name \in QueryNames, from \in QueryNames : SetColorFrom(name, from)
    \/ \E other \in OtherPalettes : AssignPalette(other)
    \/ Destroy

Spec == Init /\ [][Next]_vars

MatcherNext ==
    \/ Generate
    \/ \E name \in LookupNames : Lookup(name)

MatcherSpec == MatcherInit /\ [][MatcherNext]_vars

\* The generator run on a style or palette module.
SourceInit ==
    /\ phase = "parsed"
    /\ module \in StyleModules
    /\ indices = <<>>
    /\ computes = <<>>
    /\ matcher = <<>>
    /\ InitPalette
    /\ isPalette \in BOOLEAN
    /\ env \in Envs
    /\ InitStyle

SourceNext == WriteSource

SourceSpec == SourceInit /\ [][SourceNext]_vars

\* The written style file at run time, under changes of the scale.
ScaleInit ==
    /\ phase = "parsed"
    /\ module \in PxModules
    /\ indices = <<>>
    /\ computes = <<>>
    /\ matcher = <<>>
    /\ InitPalette
    /\ isPalette = FALSE
    /\ env = GoodEnv
    /\ InitStyle

ScaleNext ==
    \/ WriteSource
    \/ Start
    \/ \E factor \in {Scales[i] : i \in 1 .. Len(Scales)}, isRetina \in BOOLEAN :
          SetScale(factor, isRetina)

ScaleSpec == ScaleInit /\ [][ScaleNext]_vars

\* The palette checksum.
ChecksumInit == InitParsed(ChecksumModules)

ChecksumNext ==
    \/ Generate
    \/ Checksum

ChecksumSpec == ChecksumInit /\ [][ChecksumNext]_vars

----------------------------------------------------------------------------
(* What the generated finalize body says about slot i. *)

FallbackIndexOf(i) == computes[i + 1].fallbackIndex
DefaultOf(i) == computes[i + 1].value

Slots == DOMAIN status

\* No ColorData is assigned to or destroyed where none lives.
NoRawUse == ~bad

----------------------------------------------------------------------------
(* Claims. *)

\* The status of slot f when compute(i, f, ...) runs in a finalize step:
\* slots before i were computed earlier in the same call.
StatusWhenComputed(i, f) == IF f < i THEN status'[f] ELSE status[f]

\* C1: in a finalize() that computes, every slot that was Uninitialized
\* holds afterwards the value of its fallback slot if that slot was Loaded
\* when the slot was computed, and its own declared default in every other
\* case (fallback slot Computed, Uninitialized or not resolved).
C1_FallbackOnlyIfLoaded ==
    [][(last'.op = "finalize" /\ ~ready) =>
        \A i \in Slots :
            status[i] = "Initial" =>
                LET f == FallbackIndexOf(i)
                IN  IF f >= 0 /\ StatusWhenComputed(i, f) = "Loaded"
                    THEN data'[i] = data'[f]
                    ELSE data'[i] = DefaultOf(i)]_vars

\* C2: getPaletteIndex returns -1 for every name the module does not declare.
C2_UnknownNameNotFound ==
    (last.op = "getPaletteIndex" /\ last.arg \notin DeclaredNames(module))
        => last.ret = -1

\* C3: getPaletteIndex returns, for every declared name, the index of the
\* name in declaration order: the index of its accessor and the index
\* paletteIndices_ holds for it.
C3_DeclaredNameIndex ==
    (last.op = "getPaletteIndex" /\ last.arg \in DeclaredNames(module))
        => /\ last.ret = AccessorIndex(module, last.arg)
           /\ last.ret = indices[last.arg]

\* C3 witness: a declared name that shares its first character with another
\* declared name was looked up in a module of three names and has index 2.
C3_Witness ==
    /\ last.op = "getPaletteIndex"
    /\ Len(module) = 3
    /\ last.arg \in DeclaredNames(module)
    /\ last.ret = 2
    /\ \E other \in DeclaredNames(module) \ {last.arg} :
          Len(other) = 2 /\ Len(last.arg) = 2 /\ other[1] = last.arg[1]

\* C4: while the palette lives, a slot holds a constructed value exactly
\* when its status is not Uninitialized; no value is ever constructed over
\* a live value; none is destroyed where none lives; after the destructor
\* no slot holds a value.
C4_ConstructedDestroyedOnce ==
    /\ ~lost
    /\ ~bad
    /\ phase = "generated" => \A i \in Slots : (data[i] # Raw) <=> (status[i] # "Initial")
    /\ phase = "destroyed" => \A i \in Slots : data[i] = Raw

\* C5: a finalize() step leaves every slot that is Loaded before it Loaded
\* with the same value.
C5_FinalizeKeepsLoaded ==
    [][last'.op = "finalize" =>
        \A i \in Slots :
            status[i] = "Loaded" => (status'[i] = "Loaded" /\ data'[i] = data[i])]_vars

\* C5 witness: finalize() ran on a palette that was not finalized and that
\* held a value given to setColor; the slot still holds it, another slot
\* was computed from its default.
C5_Witness ==
    /\ last.op = "finalize"
    /\ ~last.wasReady
    /\ \E i \in Slots : status[i] = "Loaded" /\ data[i] = <<1, 2, 3, 4>>
    /\ \E j \in Slots : status[j] = "Created" /\ data[j] = DefaultOf(j)

\* C6: a finalize() called directly after a finalize() changes no slot
\* value, no slot status and no flag.
C6_FinalizeIdempotent ==
    [][(last.op = "finalize" /\ last'.op = "finalize") =>
        UNCHANGED <<status, data, ready, lost, bad>>]_vars

\* C6 witness: finalize() was called on a finalized palette that holds
\* both computed and loaded slots.
C6_Witness ==
    /\ last.op = "finalize"
    /\ last.wasReady
    /\ ready
    /\ \E i \in Slots : status[i] = "Loaded"
    /\ \E j \in Slots : status[j] = "Created"

\* What C7 says of a setColor step for slot names: the declared names are
\* the known ones, and a known name stands for its accessor's slot.
Known(name) == name \in DeclaredNames(module)

OnlySlotLoaded(i, value) ==
    /\ status' = [status EXCEPT ![i] = "Loaded"]
    /\ data' = [data EXCEPT ![i] = value]
    /\ ready' = ready

\* C7: setColor(name, r, g, b, a) fails and changes nothing when name is
\* unknown; setColor(name, from) fails and changes nothing when name or
\* from is unknown or from's slot is not Loaded; in every other case the
\* call succeeds, the target slot is Loaded with the given (or the source
\* slot's) value and no other slot changes.
C7_SetColorContract ==
    [][/\ last'.op = "setColor" =>
            LET name == last'.arg[1]
                rgba == last'.arg[2]
            IN  IF Known(name)
                THEN last'.ret = TRUE /\ OnlySlotLoaded(AccessorIndex(module, name), rgba)
                ELSE last'.ret = FALSE /\ UNCHANGED <<status, data, ready>>
       /\ last'.op = "setColorFrom" =>
            LET name == last'.arg[1]
                from == last'.arg[2]
            IN  IF /\ Known(name)
                   /\ Known(from)
                   /\ status[AccessorIndex(module, from)] = "Loaded"
                THEN /\ last'.ret = TRUE
                     /\ OnlySlotLoaded(AccessorIndex(module, name),
                                       data[AccessorIndex(module, from)])
                ELSE last'.ret = FALSE /\ UNCHANGED <<status, data, ready>>]_vars

\* C8: for every palette other, the loop of operator= (before finalize is
\* run again) leaves in every slot that is Loaded in other the value of
\* other, and leaves every slot that is Uninitialized in other without a
\* value and Uninitialized.
C8_AssignPerSlot ==
    phase = "generated" =>
        \A other \in OtherPalettes :
            LET q == AssignFrom(Pal, other, 0)
            IN  \A i \in Slots :
                    /\ other.status[i] = "Loaded" => q.data[i] = other.data[i]
                    /\ other.status[i] = "Initial" =>
                            (q.data[i] = Raw /\ q.status[i] = "Initial")

\* C9: after an assignment to a palette that was finalized, the ready flag
\* is set and no slot is Uninitialized.
C9_AssignRefinalizes ==
    [][(last'.op = "assign" /\ ready) =>
        (ready' /\ \A i \in Slots : status'[i] # "Initial")]_vars

\* C9 witness: an assignment to a finalized palette reset a slot (the slot
\* is Computed from its default, which no Loaded slot of the other palette
\* leaves) while another slot got the other palette's value.
C9_Witness ==
    /\ last.op = "assign"
    /\ last.wasReady
    /\ ready
    /\ \E i \in Slots :
          status[i] = "Created" /\ data[i] = DefaultOf(i) /\ data[i] # <<5, 6, 7, 8>>
    /\ \E j \in Slots : data[j] = <<5, 6, 7, 8>>

\* C10: load(cache) fails and changes no slot value, slot status or the
\* ready flag when the cache is not 4 * count bytes long; otherwise it
\* succeeds and every slot i is Loaded with (red, green, blue, alpha) =
\* bytes 4i .. 4i+3 of the cache.
C10_LoadContract ==
    [][last'.op = "load" =>
        LET cache == last'.arg
        IN  IF Len(cache) # 4 * Len(module)
            THEN last'.ret = FALSE /\ UNCHANGED <<status, data, ready>>
            ELSE /\ last'.ret = TRUE
                 /\ \A i \in Slots :
                       /\ status'[i] = "Loaded"
                       /\ data'[i] = <<cache[4 * i + 1], cache[4 * i + 2],
                                       cache[4 * i + 3], cache[4 * i + 4]>>]_vars

\* C10 witness: a load succeeded on a palette that held computed slots, and
\* slot 1 holds bytes 4..7 of the pattern.
C10_Witness ==
    /\ last.op = "load"
    /\ Len(last.arg) = 4 * Len(module)
    /\ last.ret = TRUE
    /\ last.wasReady
    /\ \A i \in Slots : status[i] = "Loaded"
    /\ data[1] = <<CacheByte(5), CacheByte(6), CacheByte(7), CacheByte(8)>>

\* C10 second witness state: a load of a cache of a wrong length failed on
\* a palette that holds a value.
C10_WitnessRejected ==
    /\ last.op = "load"
    /\ Len(last.arg) = 4 * Len(module) + 1
    /\ last.ret = FALSE
    /\ \E i \in Slots : status[i] = "Loaded"

----------------------------------------------------------------------------
\* C11: the buffer returned by save(), loaded into a fresh palette and
\* saved again, comes back byte for byte.
C11_SaveLoadRoundTrip ==
    (phase = "generated" /\ last.op = "save") =>
        LET fresh == EmptyPalette(Len(module))
            loaded == load(fresh, last.ret)
        IN  /\ Len(last.ret) = 4 * Len(module)
            /\ loaded.ret
            /\ save(loaded.pal, computes).ret = last.ret

\* save() returned a buffer that holds a loaded color, a copied fallback
\* and a declared default.
C11_Witness ==
    /\ phase = "generated"
    /\ last.op = "save"
    /\ \E i, j, k \in Slots :
          /\ status[i] = "Loaded" /\ data[i] = <<1, 2, 3, 4>>
          /\ status[j] = "Created"
          /\ status[k] = "Loaded" /\ FallbackIndexOf(k) >= 0
          /\ i # j /\ j # k /\ i # k
    /\ save(load(EmptyPalette(Len(module)), last.ret).pal, computes).ret = last.ret

----------------------------------------------------------------------------
\* The literal of a value nested in a struct field or an icon part of the
\* value came out empty.
RECURSIVE NestedEmpty(_, _, _)
NestedEmpty(value, fontFamilies, iconMasks) ==
    /\ value.copyOf = <<>>
    /\ \/ /\ value.tag = "Struct"
          /\ value.hasFields
          /\ \E k \in 1 .. Len(value.fields) :
                \/ Text(valueAssignmentCode(value.fields[k].value, fontFamilies, iconMasks)) = <<>>
                \/ NestedEmpty(value.fields[k].value, fontFamilies, iconMasks)
       \/ /\ value.tag = "Icon"
          /\ \A k \in 1 .. Len(value.parts) : value.parts[k].filename \in DOMAIN iconMasks
          /\ \E k \in 1 .. Len(value.parts) :
                \/ Text(valueAssignmentCode(value.parts[k].color, fontFamilies, iconMasks)) = <<>>
                \/ Text(valueAssignmentCode(value.parts[k].offset, fontFamilies, iconMasks)) = <<>>

\* writeSource wrote the initialisation of every variable, and the literal
\* of a nested value failed on the way.
NestedEmissionFailed ==
    /\ phase = "written"
    /\ ~isPalette
    /\ Len(module) > 0
    /\ Len(source.inits) = Len(module)
    /\ \E k \in 1 .. Len(module) :
          NestedEmpty(module[k].value, source.collected.fontFamilies, source.collected.iconMasks)

\* C12: when a step of writeSource fails (writeSetPaletteColor and the
\* literal of a nested value included), writeSource returns failure and the
\* source file is not finalized.
C12_FailurePropagates ==
    (phase = "written" /\ (source.failed # {} \/ NestedEmissionFailed)) =>
        (~source.ret /\ ~(source.finalized /\ env.finalizeOk))

----------------------------------------------------------------------------
\* The pixel quantities of a value that is not an alias, those of its
\* struct fields included.
RECURSIVE PixelQuantities(_)
PixelQuantities(value) ==
    IF value.copyOf # <<>> THEN {}
    ELSE CASE value.tag = "Pixels" -> {value.int}
           [] value.tag = "Point" -> {value.x, value.y}
           [] value.tag = "Size" -> {value.width, value.height}
           [] value.tag = "Margins" -> {value.left, value.top, value.right, value.bottom}
           [] value.tag = "Font" -> {value.size}
           [] value.tag = "Icon" ->
                UNION {{value.parts[k].offset.x, value.parts[k].offset.y} :
                          k \in 1 .. Len(value.parts)}
           [] value.tag = "Struct" ->
                UNION {PixelQuantities(value.fields[k].value) : k \in 1 .. Len(value.fields)}
           [] OTHER -> {}

ModuleQuantities == UNION {PixelQuantities(module[k].value) : k \in 1 .. Len(module)}

\* a piece of a literal that is the name of a pixel constant: "px..."
IsPxName(piece) == Len(piece) >= 3 /\ piece[1] = 112 /\ piece[2] = 120

\* writeSource got past the collection
Collected ==
    /\ phase = "written"
    /\ Len(module) > 0
    /\ source.failed \cap {"writeVariableDefinitions", "writeRefsDefinition",
                           "collectUniqueValues"} = {}

\* C13: after the collection there is exactly one generated constant per
\* distinct signed pixel value of the module, constants of different values
\* have different names, and every constant name in an emitted literal is
\* the name of a declared constant.
C13_PixelConstantsDeduplicated ==
    Collected =>
        LET decls == source.pxInit.decls
        IN  /\ {decls[k].value : k \in 1 .. Len(decls)} = ModuleQuantities
            /\ \A i, j \in 1 .. Len(decls) :
                  i # j => (decls[i].value # decls[j].value /\ decls[i].name # decls[j].name)
            /\ \A k \in 1 .. Len(source.inits) : \A n \in 1 .. Len(source.inits[k]) :
                  IsPxName(source.inits[k][n]) =>
                      \E d \in 1 .. Len(decls) : decls[d].name = source.inits[k][n]

\* A written module of two variables whose values hold 12 and -12, each
\* twice: three constants, all named in the literals.
C13_Witness ==
    /\ Collected
    /\ source.ret
    /\ Len(module) = 2
    /\ module[1].value = module[2].value
    /\ {12, -12} \subseteq ModuleQuantities
    /\ Len(source.pxInit.decls) = Cardinality(ModuleQuantities)
    /\ \E k \in 1 .. Len(source.inits) : \E n \in 1 .. Len(source.inits[k]) :
          source.inits[k][n] = pxValueName(-12)

----------------------------------------------------------------------------
\* The icon files the collection found that are image paths.
PngMasks ==
    {f \in DOMAIN source.collected.iconMasks : ~StartsWith(f, StSizeScheme)}

\* The part of an icon path before the first '-'.
RECURSIVE BasePath(_)
BasePath(f) == IF f = <<>> \/ Head(f) = 45 THEN <<>> ELSE <<Head(f)>> \o BasePath(Tail(f))

\* The names after the '-' of an icon path are registered modifiers.
RECURSIVE ModifiersKnown(_)
ModifiersKnown(f) ==
    IF \A k \in 1 .. Len(f) : f[k] # 45 THEN TRUE
    ELSE LET rest == SubSeq(f, Len(BasePath(f)) + 2, Len(f))
         IN  BasePath(rest) \in env.modifiers /\ ModifiersKnown(rest)

\* C16: the composition of an icon mask succeeds only when both images
\* load with the same format, the double image is exactly twice the base
\* in width and in height, and every modifier is registered; the canvas is
\* then (width_200 + width_100) wide and (height_200 + adjust(height_100,
\* 150%)) high: 30x35 for a 10x10 base.  Otherwise the result is empty.
C16_IconComposition ==
    Collected =>
        \A f \in PngMasks :
            LET base == LoadImage(env.images, BasePath(f) \o Ext100)
                double == LoadImage(env.images, BasePath(f) \o Ext200)
                composed == iconMaskValuePng(f, env)
                fits == /\ ~base.null /\ ~double.null
                        /\ base.format = double.format
                        /\ double.width = 2 * base.width
                        /\ double.height = 2 * base.height
                        /\ ModifiersKnown(f)
            IN  /\ composed.empty <=> ~fits
                /\ fits => /\ composed.width = double.width + base.width
                           /\ composed.height = double.height + pxAdjust(base.height, 6)
                /\ (fits /\ base.width = 10 /\ base.height = 10) =>
                       (composed.width = 30 /\ composed.height = 35)
                /\ (composed.empty /\ source.collected.ok) => "writeIconValues" \in source.failed
                /\ source.collected.iconMasks[f] \in DOMAIN source.masks =>
                       (fits /\ source.masks[source.collected.iconMasks[f]] = composed)
                /\ "writeIconValues" \notin source.failed =>
                       source.collected.iconMasks[f] \in DOMAIN source.masks

\* The file was written with the mask of "i" composed from a 10x10 and a
\* 20x20 image: 30x35.
C16_Witness ==
    /\ Collected
    /\ source.ret
    /\ StI \in PngMasks
    /\ LoadImage(env.images, StI \o Ext200).width = 20
    /\ source.masks[source.collected.iconMasks[StI]] =
          [empty |-> FALSE, kind |-> "png", width |-> 30, height |-> 35]

\* The double image of "i" is 19x20 and writeSource failed at the masks.
C16_WitnessRejected ==
    /\ Collected
    /\ StI \in PngMasks
    /\ LoadImage(env.images, StI \o Ext200).width = 19
    /\ LoadImage(env.images, StI \o Ext200).height = 20
    /\ source.failed = {"writeIconValues"}
    /\ ~source.ret

----------------------------------------------------------------------------
\* The supported scales and the declarations and cases of the written file.
Factors == {Scales[i] : i \in 1 .. Len(Scales)}
Decls == source.pxInit.decls
Cases == source.pxInit.cases

\* The values the constants can have when initPxValues is entered: the
\* values they have now, or those a run for some scale has left.
Entered == {px} \cup {initPxValues(Declared(Decls), Cases, g, FALSE) : g \in Factors}

\* C14: initPxValues has one case for each supported scale s after the
\* baseline, which reassigns exactly the constants v with adjust(v, s) # v
\* to adjust(v, s) and leaves every other constant as it was; a second run
\* under the same scale changes nothing; under retina nothing changes.
C14_RecomputeFrame ==
    (phase = "written" /\ source.ret /\ Decls # <<>>) =>
        /\ Len(Cases) = Len(Scales) - 1
        /\ \A i \in 1 .. Len(Cases) :
              /\ Cases[i].factor = Scales[i + 1]
              /\ {Cases[i].lines[n].name : n \in 1 .. Len(Cases[i].lines)} =
                     {Decls[k].name : k \in {j \in 1 .. Len(Decls) :
                          pxAdjust(Decls[j].value, Scales[i + 1]) # Decls[j].value}}
        /\ \A before \in Entered, s \in Factors :
              LET once == initPxValues(before, Cases, s, FALSE)
              IN  /\ DOMAIN once = DOMAIN before
                  /\ s # Scales[1] =>
                        \A k \in 1 .. Len(Decls) :
                            once[Decls[k].name] =
                                IF pxAdjust(Decls[k].value, s) # Decls[k].value
                                THEN pxAdjust(Decls[k].value, s)
                                ELSE before[Decls[k].name]
                  /\ initPxValues(once, Cases, s, FALSE) = once
                  /\ initPxValues(before, Cases, s, TRUE) = before

\* init_<module>() ran at 125%: the constant of 8 is now 10, and the
\* constant of 2, whose adjustment is 2, is among the constants as declared.
C14_Witness ==
    /\ phase = "written"
    /\ last.op = "init"
    /\ scale = 5 /\ ~retina
    /\ pxValueName(8) \in DOMAIN px /\ px[pxValueName(8)] = 10
    /\ pxValueName(2) \in DOMAIN px /\ px[pxValueName(2)] = 2
    /\ \A i \in 1 .. Len(Cases) :
          \A n \in 1 .. Len(Cases[i].lines) :
              Cases[i].factor = 5 => Cases[i].lines[n].name # pxValueName(2)

\* C19: when init_<module>() has run initPxValues under the active scale
\* s, not retina (the first start of the written file, or any step of it
\* that changes a constant), every pixel constant is adjust(base value, s),
\* whatever scales were active before that step.
C19_ConstantsFollowScale ==
    [][(phase = "written" /\ ~retina /\ ((~inited /\ inited') \/ px' # px)) =>
          \A k \in 1 .. Len(Decls) :
              px'[Decls[k].name] = pxAdjust(Decls[k].value, scale)]_vars

\* The written file was started under a scale other than the baseline and
\* not retina, which is still active; a constant was reassigned and every
\* constant has the value adjusted to that scale.
C19_Witness ==
    /\ phase = "written"
    /\ inited
    /\ ~retina
    /\ scale # Scales[1]
    /\ last = Call("init", <<scale, retina>>, None)
    /\ Len(Decls) > 1
    /\ \E k \in 1 .. Len(Decls) : px[Decls[k].name] # Decls[k].value
    /\ \E k \in 1 .. Len(Decls) : px[Decls[k].name] = Decls[k].value
    /\ \A k \in 1 .. Len(Decls) : px[Decls[k].name] = pxAdjust(Decls[k].value, scale)

----------------------------------------------------------------------------
(* CRC-32 as it is defined, bit by bit: the reflected polynomial 0xEDB88320, *)
(* the register starting at and finally inverted with 0xFFFFFFFF.           *)

\* a >> 1
ShiftRight1(a) ==
    <<a[1] \div 2, ((a[1] % 2) * 128) + (a[2] \div 2),
      ((a[2] % 2) * 128) + (a[3] \div 2), ((a[3] % 2) * 128) + (a[4] \div 2)>>

ReflectedPoly == <<237, 184, 131, 32>>

RECURSIVE ReferenceBits(_, _)
ReferenceBits(crc, j) ==
    IF j = 0 THEN crc
    ELSE ReferenceBits(IF crc[4] % 2 = 1 THEN Xor(ShiftRight1(crc), ReflectedPoly)
                       ELSE ShiftRight1(crc), j - 1)

RECURSIVE ReferenceFrom(_, _, _)
ReferenceFrom(crc, buffer, i) ==
    IF i > Len(buffer) THEN crc
    ELSE LET next == ReferenceBits(Xor(crc, <<0, 0, 0, buffer[i]>>), 8)
         IN  IF next[4] \in 0 .. 255 THEN ReferenceFrom(next, buffer, i + 1) ELSE crc

Crc32Reference(buffer) ==
    ToInt32(Xor(ReferenceFrom(<<255, 255, 255, 255>>, buffer, 1), <<255, 255, 255, 255>>))

\* The assignment literal of a variable, and the text the claim names: "&" +
\* name + ":" + literal over the colors in the order of declaration.
Literal(variable) == Text(valueAssignmentCode(variable.value, <<>>, <<>>))

RECURSIVE PaletteText(_)
PaletteText(mod) ==
    IF mod = <<>> THEN <<>>
    ELSE <<38>> \o Head(mod).name \o <<58>> \o Literal(Head(mod)) \o PaletteText(Tail(mod))

\* The palette modules that are module but for the literal of one color.
OneLiteralDiffers(mod) ==
    {other \in ChecksumModules :
        /\ Len(other) = Len(mod)
        /\ \E k \in 1 .. Len(mod) :
              /\ Literal(other[k]) # Literal(mod[k])
              /\ other[k].name = mod[k].name
              /\ \A j \in (1 .. Len(mod)) \ {k} : other[j] = mod[j]}

\* Two texts of one length that differ only within four consecutive bytes.
BurstApart(a, b) ==
    /\ Len(a) = Len(b)
    /\ a # b
    /\ \E from \in 1 .. Len(a) :
          \A i \in 1 .. Len(a) : a[i] # b[i] => i \in from .. from + 3

\* C15, as claimed: the checksum is the CRC-32 of the text, and every module
\* that differs in the literal of one color has another checksum.
C15_ChecksumSensitive ==
    last.op = "Checksum" =>
        /\ last.ret = Crc32Reference(PaletteText(module))
        /\ \A other \in OneLiteralDiffers(module) :
              writeSetPaletteColor(other).checksum # last.ret

\* C15, amended: the checksum is the CRC-32 of the text; it is the checksum
\* of every module with the same text, and differs from the checksum of a
\* module that differs in the literal of one color when the two texts have
\* the same length and differ only within four consecutive bytes.
C15_ChecksumIsCrc32 ==
    last.op = "Checksum" =>
        /\ last.ret = Crc32Reference(PaletteText(module))
        /\ Crc32Reference(<<49, 50, 51, 52, 53, 54, 55, 56, 57>>) = -873187034
        /\ \A other \in OneLiteralDiffers(module) :
              BurstApart(PaletteText(other), PaletteText(module)) =>
                  writeSetPaletteColor(other).checksum # last.ret

\* The checksum of a palette of two colors, the second a copy of the first,
\* was computed, and some module differs from it in one literal by a burst.
C15_Witness ==
    /\ last.op = "Checksum"
    /\ Len(module) = 2
    /\ module[2].value.copyOf # <<>>
    /\ \E other \in OneLiteralDiffers(module) :
          BurstApart(PaletteText(other), PaletteText(module))

----------------------------------------------------------------------------
\* C17: after dst = src, whatever dst was before, every slot that is Loaded
\* in src is Loaded in dst, so a finalize() of dst after it leaves the
\* assigned value in the slot.
C17_AssignMakesLoaded ==
    phase = "generated" =>
        \A other \in OtherPalettes :
            LET q == assignPalette(Pal, other, computes)
            IN  \A i \in Slots :
                    other.status[i] = "Loaded" =>
                        /\ q.status[i] = "Loaded"
                        /\ finalize(q, computes).data[i] = other.data[i]

\* C18: between the operations of a palette, when the ready flag is set no
\* slot is Uninitialized.
C18_ReadyMeansComputed ==
    ready => \A i \in Slots : status[i] # "Initial"

\* The palette is ready after setColor on a finalized palette: the slot set
\* is Loaded and another slot is still Computed from its default.
C18_Witness ==
    /\ phase = "generated"
    /\ ready
    /\ last.op = "setColor"
    /\ last.wasReady
    /\ \E i, j \in Slots : status[i] = "Loaded" /\ status[j] = "Created"

====
